---- MODULE Spec2Model ----
(***************************************************************************)
(* Credit-gated task orchestrator of demo-mcp-ui: the Credit Ledger Bridge *)
(* (orderPlanCredits, redeemCredits, getBurnTransactionInfo over the       *)
(* PlanDDOHelper cache) and the Tool Gateway (listMcpTools, callMcpTool,   *)
(* createTask) of src/server/services/paymentsService.ts.                  *)
(*                                                                         *)
(* One request is followed from its call to its return or throw.  Every    *)
(* await of the source is one step; the answers of the external           *)
(* collaborators (payments library, chain RPC, event locator, tool server) *)
(* are drawn from small sets at the step that awaits them.                 *)
(*                                                                         *)
(* Spec follows one service call; SpecServer follows two requests on the   *)
(* event loop; SpecRoutes follows one request through the handlers of      *)
(* src/server/routes.ts; SpecPrompts follows the prompt cache of           *)
(* src/server/services/promptService.ts.                                   *)
(***************************************************************************)
EXTENDS Integers, Sequences, FiniteSets, TLC

(* ------------------------------ bounds -------------------------------- *)
MaxBalance == 3
MaxHeight == 1
MaxTextLen == 3
MaxCredits == 2
MaxMtime == 2
MaxEdits == 2

(* ------------------------- program constants -------------------------- *)
MaxAttempts == 10
DelayAttempts == 10
UsdcDecimals == 1000000
usdcAddress == "0x036CbD53842c5426634e7929541eC2318f3dCF7e"

(* --------------------------- value universe --------------------------- *)
\* An optional value: <<>> is null/undefined, <<x>> is x.
None == <<>>
Some(x) == <<x>>
IsSome(o) == o # <<>>
Val(o) == o[1]

\* Strings: "" is the falsy string and also stands for undefined.
\* Truthy taking every string, the empty one too, for a value.
Truthy_Always(s) == TRUE
Truthy(s) == s # ""

PlanIds == {"did:plan:A", "did:plan:B"}
TokenAddresses == {"", usdcAddress, "0xOtherToken"}
NftAddresses == {"", "0xNFT1155"}
AmountLists == {<<>>, <<3>>, <<1, 2>>, <<5000000>>, <<1500000, 1000000>>}
Wallets == {"", "0xWallet"}
TxHashes == {"0xaa", "0xbb"}
EventValues == {"1", "5"}
UpstreamMessages == {"", "upstream says no"}

\* The plan descriptors payments.plans.getPlan can answer with (truthy ones).
CreditAmounts == {0, 100}
DDOs == [tokenAddress : TokenAddresses, amounts : AmountLists, nftAddress : NftAddresses,
         credits : CreditAmounts]

\* What payments.plans.getPlan can do: answer a descriptor, answer a falsy
\* value, or reject.
GetPlanAnswers == {[kind |-> "value", ddo |-> Some(d)] : d \in DDOs}
                    \cup {[kind |-> "value", ddo |-> None], [kind |-> "throw", ddo |-> None]}

RECURSIVE SumSeq(_)
SumSeq(s) == IF s = <<>> THEN 0 ELSE Head(s) + SumSeq(Tail(s))

RECURSIVE Count(_, _)
Count(s, x) == IF s = <<>> THEN 0
               ELSE (IF Head(s) = x THEN 1 ELSE 0) + Count(Tail(s), x)

(* ------------------------------- state -------------------------------- *)
VARIABLES
  env,          \* process.env: NVM_ENVIRONMENT, PLAN_ID, AGENT_DID ("" = unset)
  op,           \* the Ledger Bridge operation of this request
  pc,           \* position of the request inside the operation
  ddo,          \* PlanDDOHelper.ddo, the cached plan descriptor
  loc,          \* the local variables of the operation
  calls,        \* external calls (and delays) made so far, in order
  result,       \* outcome of the operation: pending, return or throw
  chainHeight,  \* current block number of the chain
  gop,          \* the Tool Gateway operation of this request
  gpc,          \* position inside the Tool Gateway operation
  gloc,         \* the local variables of the Tool Gateway operation
  gcalls,       \* calls made on the tool server session, in order
  gresult,      \* outcome of the Tool Gateway operation
  lop,          \* the completion-backed operation of this request
  lpc,          \* position inside the completion-backed operation
  lloc,         \* the local variables of the completion-backed operation
  lcalls,       \* calls made by the completion-backed operation, in order
  lresult,      \* outcome of llmRouter / llmIntentSynthesizer
  reqs,         \* the requests the server has in flight, each with its position
  wallet,       \* token balance of the principal's wallet on the chain
  ledgerCredits, \* credit balance of the principal's plan on the ledger
  http,         \* the HTTP request the server is answering, and its response
  promptCache,  \* promptService's promptCache: filename -> cached prompt
  promptFiles,  \* the prompt files on disk: status, content, modification time
  promptCall    \* the loadPrompt / reloadPrompt call being followed

bridgeVars == <<op, pc, ddo, loc, calls, result, chainHeight>>
gatewayVars == <<gop, gpc, gloc, gcalls, gresult>>
llmVars == <<lop, lpc, lloc, lcalls, lresult>>
serverVars == <<reqs, wallet, ledgerCredits>>
routeVars == <<http>>
promptVars == <<promptCache, promptFiles, promptCall>>
baseVars == <<env, op, pc, ddo, loc, calls, result, chainHeight, gop, gpc, gloc, gcalls,
              gresult, lop, lpc, lloc, lcalls, lresult>>
vars == <<env, op, pc, ddo, loc, calls, result, chainHeight, gop, gpc, gloc, gcalls, gresult,
          lop, lpc, lloc, lcalls, lresult, reqs, wallet, ledgerCredits, http,
          promptCache, promptFiles, promptCall>>

Pending == [kind |-> "pending"]
Return(v) == [kind |-> "return", value |-> v]
Throw(m) == [kind |-> "throw", error |-> m]

Envs == [NVM_ENVIRONMENT : {"", "testing"}, PLAN_ID : {""} \cup PlanIds, AGENT_DID : {"", "did:agent"}]

(* --------------------------- PlanDDOHelper ---------------------------- *)
\* getTokenAddress: ddo?.registry?.price?.tokenAddress
getTokenAddress(d) == IF IsSome(d) THEN Val(d).tokenAddress ELSE ""

\* get1155ContractAddress: ddo?.registry?.credits?.nftAddress
get1155ContractAddress(d) == IF IsSome(d) THEN Val(d).nftAddress ELSE ""

\* getTokenId: the plan id
getTokenId(planId) == planId

\* getPlanPrice dividing whatever the settlement token is.
getPlanPrice_AlwaysScaled(d) ==
  IF ~IsSome(d) THEN [kind |-> "undefined", units |-> 0, scale |-> 1]
  ELSE [kind |-> "num", units |-> SumSeq(Val(d).amounts), scale |-> UsdcDecimals]

\* getPlanPrice: the sum of the amounts, over 10^6 for the stablecoin.  The
\* price is kept as the exact fraction units/scale; undefined without a
\* descriptor.
getPlanPrice(d) ==
  IF ~IsSome(d) THEN [kind |-> "undefined", units |-> 0, scale |-> 1]
  ELSE IF Val(d).tokenAddress = usdcAddress
       THEN [kind |-> "num", units |-> SumSeq(Val(d).amounts), scale |-> UsdcDecimals]
       ELSE [kind |-> "num", units |-> SumSeq(Val(d).amounts), scale |-> 1]

\* getPlanCredits: ddo?.registry?.credits?.amount || 0
getPlanCredits(d) == IF IsSome(d) THEN Val(d).credits ELSE 0

\* Number.prototype.toString of units/scale, as a sequence of characters:
\* the integer part, then the decimals without trailing zeros.
DigitChars == <<"0", "1", "2", "3", "4", "5", "6", "7", "8", "9">>
RECURSIVE IntDigits(_)
IntDigits(n) == IF n < 10 THEN <<DigitChars[n + 1]>>
                ELSE Append(IntDigits(n \div 10), DigitChars[(n % 10) + 1])
RECURSIVE FracDigits(_, _)
FracDigits(r, scale) ==
  IF r = 0 THEN <<>>
  ELSE <<DigitChars[((r * 10) \div scale) + 1]>> \o FracDigits((r * 10) % scale, scale)
NumberToString(units, scale) ==
  IntDigits(units \div scale)
    \o (IF units % scale = 0 THEN <<>> ELSE <<".">> \o FracDigits(units % scale, scale))

\* The text getPlanPrice resolves to; undefined without a descriptor.
PriceText(price) ==
  IF price.kind = "num" THEN Some(NumberToString(price.units, price.scale)) ELSE None

\* loadDDO: fetch the descriptor only while the cache is falsy.
NeedsFetch(d) == ~IsSome(d)

\* The answers loadDDO can see: the remote answer when it fetches, the cache
\* otherwise.
LoadAnswers(d) == IF NeedsFetch(d) THEN GetPlanAnswers
                  ELSE {[kind |-> "value", ddo |-> d]}

\* The call log after loadDDO.
LoadCalls(d, log) == IF NeedsFetch(d) THEN Append(log, "getPlan") ELSE log

(* ---------------------- chain RPC / event locator --------------------- *)
\* hasSufficientERC20Balance: the wallet holds at least the price.  With a
\* price that is not a number the answer is not determined.
hasSufficientERC20Balance(balance, price) ==
  IF price.kind = "num" THEN {balance * price.scale >= price.units} ELSE BOOLEAN

\* An event the locator reports: mint or burn of the asset for the wallet.
ChainEvents == [txHash : TxHashes, value : EventValues, blockNumber : 0..(MaxHeight + 1)]

\* findMintEvent / findBurnEvent: a single-shot scan from fromBlock to the
\* head of the chain; answers the first matching event, absent, or rejects.
LocatorAnswers(fromBlock, head) ==
  {[kind |-> "value", event |-> Some(e)] :
      e \in {x \in ChainEvents : x.blockNumber >= fromBlock /\ x.blockNumber <= head}}
    \cup {[kind |-> "value", event |-> None], [kind |-> "throw", event |-> None]}

(* ------------------------------ locals -------------------------------- *)
NoPrice == [kind |-> "undefined", units |-> 0, scale |-> 1]
InitLoc == [planId |-> "", nvmApiKey |-> "", planPrice |-> NoPrice, tokenAddress |-> None,
            ourWallet |-> "", hasBalance |-> None, fromBlock |-> 0,
            orderResult |-> None, contractAddress |-> "", tokenId |-> "",
            event |-> None, attempts |-> 0, creditsAmount |-> "",
            mintBlock |-> None, mintQuery |-> None, lastAnswer |-> ""]

\* A request of the server: its operation, its position, and what it did.
Requests == {"r1", "r2"}
IdleReq == [op |-> "none", pc |-> "idle", lostAt |-> "", seenBalance |-> None,
            attempts |-> 0, delays |-> 0, purchases |-> 0, queries |-> 0,
            during |-> {}, result |-> Pending,
            tokenCalls |-> 0, token |-> None, connects |-> 0, session |-> None,
            authWith |-> None, sentOn |-> None, outcome |-> Pending]

InitLloc == [messageIsString |-> FALSE, authorization |-> "", lookup |-> "none",
             credits |-> None, catalog |-> None, text |-> None, status |-> 0,
             body |-> None]

InitGloc == [nvmApiKey |-> "", clientCreated |-> FALSE, failed |-> "",
             outcome |-> Pending, closeFailed |-> FALSE, response |-> None,
             input |-> None, defaultTool |-> "", request |-> None]

\* The prompt files the server reads, and what they can hold.
Filenames == {"agent.prompt", "llm-router.prompt", "notes.prompt"}
PromptTexts == {"v1", "v2"}
InitFile == [status |-> "ok", content |-> "v1", mtime |-> 0, edits |-> 0, orderly |-> TRUE]
IdleCall == [fn |-> "none", filename |-> "", pc |-> "idle", mtimeSeen |-> 0,
             statContent |-> "", entryAtLoad |-> None, reads |-> 0, failed |-> FALSE,
             raced |-> FALSE, hadEntry |-> FALSE, result |-> None]

\* An HTTP request: its route, where its handler stands, and what was sent.
IdleHttp == [route |-> "", pc |-> "idle", authorization |-> None, paramOk |-> FALSE,
             nvmApiKey |-> <<>>, status |-> 0, responses |-> 0, rejection |-> ""]

Finish(r) == /\ result' = r
             /\ pc' = "done"

(* ------------------------------- Init --------------------------------- *)
BridgeIdle == /\ op = "none"
              /\ pc = "idle"
              /\ ddo = None
              /\ loc = InitLoc
              /\ calls = <<>>
              /\ result = Pending

GatewayIdle == /\ gop = "none"
               /\ gpc = "idle"
               /\ gcalls = <<>>
               /\ gresult = Pending

LlmIdle == /\ lop = "none"
           /\ lpc = "idle"
           /\ lloc = InitLloc
           /\ lcalls = <<>>
           /\ lresult = Pending

ServerIdle == /\ reqs = [r \in Requests |-> IdleReq]
              /\ wallet = 0
              /\ ledgerCredits = 0

RouteIdle == http = IdleHttp

PromptIdle == /\ promptCache = [f \in Filenames |-> None]
              /\ promptFiles = [f \in Filenames |-> InitFile]
              /\ promptCall = IdleCall

Init == /\ env \in Envs
        /\ chainHeight \in 0..MaxHeight
        /\ BridgeIdle
        /\ GatewayIdle
        /\ gloc = InitGloc
        /\ LlmIdle
        /\ ServerIdle
        /\ RouteIdle
        /\ PromptIdle

(* --------------------------- initializePayments ----------------------- *)
\* initializePayments: Payments.getInstance, then throw unless logged in.
\* Answers the outcome of the caller's preamble: "" to go on, else the error.
initializePayments(isLoggedIn) ==
  IF ~isLoggedIn THEN "Failed to log in to the Nevermined Payments Library" ELSE ""

(* ----------------------------- orderPlanCredits ----------------------- *)
\* OrderPlanSteps with the purchase moved before the snapshot.
OrderPlanSteps_PurchaseFirst == <<"loadDDO", "getPlanPrice", "getTokenAddress", "wallet", "balance",
                                  "purchase", "snapshot", "get1155", "findMint">>

\* The statements of orderPlanCredits in source order; NextStep(s) is the
\* statement that runs after s completed without returning or throwing.
OrderPlanSteps == <<"loadDDO", "getPlanPrice", "getTokenAddress", "wallet", "balance",
                    "snapshot", "purchase", "get1155", "findMint">>

NextStep(s) == LET i == CHOOSE k \in 1..Len(OrderPlanSteps) : OrderPlanSteps[k] = s
               IN  IF i < Len(OrderPlanSteps) THEN OrderPlanSteps[i + 1] ELSE "done"

\* Lines 266-271: configuration check, login, a new PlanDDOHelper.
OP_Start ==
  /\ pc = "idle" /\ gpc = "idle" /\ lpc = "idle"
  /\ \E planId \in PlanIds, key \in {"", "nvm-key"}, isLoggedIn \in BOOLEAN :
       /\ op' = "orderPlan"
       /\ loc' = [loc EXCEPT !.planId = planId, !.nvmApiKey = key]
       /\ ddo' = None
       /\ IF key = "" \/ env.NVM_ENVIRONMENT = ""
          THEN /\ Finish(Throw("Missing Nevermined API key or environment"))
               /\ calls' = calls
          ELSE /\ calls' = Append(calls, "getInstance")
               /\ IF initializePayments(isLoggedIn) # ""
                  THEN Finish(Throw(initializePayments(isLoggedIn)))
                  ELSE /\ pc' = OrderPlanSteps[1]
                       /\ result' = result
  /\ UNCHANGED <<promptVars, routeVars, serverVars, env, chainHeight, gatewayVars, llmVars>>

\* Line 272: await planHelper.loadDDO()
OP_LoadDDO ==
  /\ op = "orderPlan" /\ pc = "loadDDO"
  /\ \E ans \in LoadAnswers(ddo) :
       /\ calls' = LoadCalls(ddo, calls)
       /\ IF ans.kind = "throw"
          THEN Finish(Throw("getPlan rejected")) /\ ddo' = ddo
          ELSE /\ ddo' = ans.ddo
               /\ pc' = NextStep("loadDDO")
               /\ result' = result
  /\ UNCHANGED <<promptVars, routeVars, serverVars, env, op, loc, chainHeight, gatewayVars, llmVars>>

\* Line 275: const planPrice = await planHelper.getPlanPrice()
OP_GetPlanPrice ==
  /\ op = "orderPlan" /\ pc = "getPlanPrice"
  /\ \E ans \in LoadAnswers(ddo) :
       /\ calls' = LoadCalls(ddo, calls)
       /\ IF ans.kind = "throw"
          THEN Finish(Throw("getPlan rejected")) /\ ddo' = ddo /\ loc' = loc
          ELSE /\ ddo' = ans.ddo
               /\ loc' = [loc EXCEPT !.planPrice = getPlanPrice(ans.ddo)]
               /\ pc' = NextStep("getPlanPrice")
               /\ result' = result
  /\ UNCHANGED <<promptVars, routeVars, serverVars, env, op, chainHeight, gatewayVars, llmVars>>

\* TokenAddressMissing without the early return.
TokenAddressMissing_Ignored(tokenAddress) == Pending

\* Lines 277-279: what a missing token address leads to.
TokenAddressMissing(tokenAddress) ==
  IF ~Truthy(tokenAddress)
  THEN Return([success |-> FALSE, message |-> "Token address not found in plan DDO"])
  ELSE Pending

\* Lines 276-279: the token address, and the return when it is absent.
OP_GetTokenAddress ==
  /\ op = "orderPlan" /\ pc = "getTokenAddress"
  /\ \E ans \in LoadAnswers(ddo) :
       /\ calls' = LoadCalls(ddo, calls)
       /\ IF ans.kind = "throw"
          THEN Finish(Throw("getPlan rejected")) /\ ddo' = ddo /\ loc' = loc
          ELSE /\ ddo' = ans.ddo
               /\ loc' = [loc EXCEPT !.tokenAddress = Some(getTokenAddress(ans.ddo))]
               /\ IF TokenAddressMissing(getTokenAddress(ans.ddo)) # Pending
                  THEN Finish(TokenAddressMissing(getTokenAddress(ans.ddo)))
                  ELSE /\ pc' = NextStep("getTokenAddress")
                       /\ result' = result
  /\ UNCHANGED <<promptVars, routeVars, serverVars, env, op, chainHeight, gatewayVars, llmVars>>

\* Lines 282-285: the wallet address of the principal.
OP_Wallet ==
  /\ op = "orderPlan" /\ pc = "wallet"
  /\ \E w \in Wallets :
       /\ calls' = Append(calls, "getAccountAddress")
       /\ loc' = [loc EXCEPT !.ourWallet = w]
       /\ IF ~Truthy(w)
          THEN Finish(Return([success |-> FALSE, message |-> "Wallet address not found"]))
          ELSE /\ pc' = NextStep("wallet")
               /\ result' = result
  /\ UNCHANGED <<promptVars, routeVars, serverVars, env, op, ddo, chainHeight, gatewayVars, llmVars>>

\* InsufficientBalance without the early return.
InsufficientBalance_Ignored(hasBalance) == Pending

\* Lines 293-298: what the answer of the balance check leads to.
InsufficientBalance(hasBalance) ==
  IF ~hasBalance
  THEN Return([success |-> FALSE, message |-> "Insufficient USDC balance to purchase credits"])
  ELSE Pending

\* Lines 288-298: the pre-flight balance check.
OP_BalanceCheck ==
  /\ op = "orderPlan" /\ pc = "balance"
  /\ \E balance \in 0..MaxBalance, rpcOk \in BOOLEAN :
       /\ calls' = Append(calls, "hasSufficientERC20Balance")
       /\ IF ~rpcOk
          THEN Finish(Throw("chain RPC rejected")) /\ loc' = loc
          ELSE \E hasBalance \in hasSufficientERC20Balance(balance, loc.planPrice) :
                 /\ loc' = [loc EXCEPT !.hasBalance = Some(hasBalance)]
                 /\ IF InsufficientBalance(hasBalance) # Pending
                    THEN Finish(InsufficientBalance(hasBalance))
                    ELSE /\ pc' = NextStep("balance")
                         /\ result' = result
  /\ UNCHANGED <<promptVars, routeVars, serverVars, env, op, ddo, chainHeight, gatewayVars, llmVars>>

\* Line 301: const fromBlock = await getCurrentBlockNumber()
OP_Snapshot ==
  /\ op = "orderPlan" /\ pc = "snapshot"
  /\ \E rpcOk \in BOOLEAN :
       /\ calls' = Append(calls, "getCurrentBlockNumber")
       /\ IF ~rpcOk
          THEN Finish(Throw("chain RPC rejected")) /\ loc' = loc
          ELSE /\ loc' = [loc EXCEPT !.fromBlock = chainHeight]
               /\ pc' = NextStep("snapshot")
               /\ result' = result
  /\ UNCHANGED <<promptVars, routeVars, serverVars, env, op, ddo, chainHeight, gatewayVars, llmVars>>

\* What payments.plans.orderPlan can do: report success, report failure with
\* a message, or reject with an error message.
OrderAnswers == [kind : {"value", "throw"}, success : BOOLEAN, message : UpstreamMessages]
                  \ {a \in [kind : {"throw"}, success : {TRUE}, message : UpstreamMessages] : TRUE}

PurchaseSucceeded(ans) == ans.kind = "value" /\ ans.success

\* Lines 304-312: the result of a failed purchase.
OrderFailure(ans) ==
  IF ans.kind = "value"
  THEN [success |-> FALSE, message |-> "Failed to order credits for plan"]
  ELSE [success |-> FALSE,
        message |-> IF Truthy(ans.message) THEN ans.message
                    ELSE "Failed to order credits for plan"]

\* Lines 302-313: the purchase primitive.  A successful purchase is mined in
\* a new block.
OP_Purchase ==
  /\ op = "orderPlan" /\ pc = "purchase"
  /\ \E ans \in OrderAnswers :
       /\ calls' = Append(calls, "orderPlan")
       /\ loc' = [loc EXCEPT !.orderResult = Some(ans),
                             !.mintBlock = IF PurchaseSucceeded(ans) THEN Some(chainHeight + 1)
                                           ELSE None]
       /\ IF PurchaseSucceeded(ans)
          THEN /\ chainHeight' = chainHeight + 1
               /\ pc' = NextStep("purchase")
               /\ result' = result
          ELSE /\ chainHeight' = chainHeight
               /\ Finish(Return(OrderFailure(ans)))
  /\ UNCHANGED <<promptVars, routeVars, serverVars, env, op, ddo, gatewayVars, llmVars>>

\* Lines 316-317: contract address and token id of the plan.
OP_Get1155 ==
  /\ op = "orderPlan" /\ pc = "get1155"
  /\ \E ans \in LoadAnswers(ddo) :
       /\ calls' = LoadCalls(ddo, calls)
       /\ IF ans.kind = "throw"
          THEN Finish(Throw("getPlan rejected")) /\ ddo' = ddo /\ loc' = loc
          ELSE /\ ddo' = ans.ddo
               /\ loc' = [loc EXCEPT !.contractAddress = get1155ContractAddress(ans.ddo),
                                     !.tokenId = getTokenId(loc.planId)]
               /\ pc' = NextStep("get1155")
               /\ result' = result
  /\ UNCHANGED <<promptVars, routeVars, serverVars, env, op, chainHeight, gatewayVars, llmVars>>

\* PollsMintEvent without the test of the contract address.
PollsMintEvent_Always(contractAddress) == TRUE

\* Line 318: the mint event is looked for only with a contract address.
PollsMintEvent(contractAddress) == Truthy(contractAddress)

\* Lines 323-334: the result of a successful purchase.
OrderSuccess(mintEvent) ==
  IF IsSome(mintEvent)
  THEN [success |-> TRUE, txHash |-> Val(mintEvent).txHash, credits |-> Val(mintEvent).value,
        message |-> <<"Credits purchased and added to your balance. (tx: ",
                      Val(mintEvent).txHash, ")">>]
  ELSE [success |-> TRUE, message |-> <<"Credits purchased and added to your balance.">>]

\* MintQuery with the wallet and the token id in each other's place.
MintQuery_SwapsArguments(contractAddress, ourWallet, tokenId, fromBlock) ==
  [contractAddress |-> contractAddress, wallet |-> tokenId, tokenId |-> ourWallet,
   fromBlock |-> fromBlock]

\* Line 319: findMintEvent(contractAddress, ourWallet, tokenId, fromBlock)
MintQuery(contractAddress, ourWallet, tokenId, fromBlock) ==
  [contractAddress |-> contractAddress, wallet |-> ourWallet, tokenId |-> tokenId,
   fromBlock |-> fromBlock]

\* Lines 318-334: one look for the mint event, then the result.
OP_FindMint ==
  /\ op = "orderPlan" /\ pc = "findMint"
  /\ IF PollsMintEvent(loc.contractAddress)
     THEN \E ans \in LocatorAnswers(MintQuery(loc.contractAddress, loc.ourWallet, loc.tokenId,
                                              loc.fromBlock).fromBlock, chainHeight) :
            /\ calls' = Append(calls, "findMintEvent")
            /\ IF ans.kind = "throw"
               THEN /\ Finish(Throw("event locator rejected"))
                    /\ loc' = [loc EXCEPT !.mintQuery = Some(MintQuery(loc.contractAddress,
                                             loc.ourWallet, loc.tokenId, loc.fromBlock))]
               ELSE /\ loc' = [loc EXCEPT !.event = ans.event,
                                          !.mintQuery = Some(MintQuery(loc.contractAddress,
                                             loc.ourWallet, loc.tokenId, loc.fromBlock))]
                    /\ Finish(Return(OrderSuccess(ans.event)))
     ELSE /\ calls' = calls
          /\ loc' = [loc EXCEPT !.event = None]
          /\ Finish(Return(OrderSuccess(None)))
  /\ UNCHANGED <<promptVars, routeVars, serverVars, env, op, ddo, chainHeight, gatewayVars, llmVars>>

OrderPlanNext == \/ OP_Start
                 \/ OP_LoadDDO
                 \/ OP_GetPlanPrice
                 \/ OP_GetTokenAddress
                 \/ OP_Wallet
                 \/ OP_BalanceCheck
                 \/ OP_Snapshot
                 \/ OP_Purchase
                 \/ OP_Get1155
                 \/ OP_FindMint

(* ------------------------------ redeemCredits ------------------------- *)
\* What payments.plans.redeemCredits can do: answer a result (or nothing),
\* or reject with an error message.
RedeemAnswers ==
  {[kind |-> "value", res |-> Some(r)] :
      r \in [success : BOOLEAN, txHash : TxHashes, message : UpstreamMessages]}
    \cup {[kind |-> "value", res |-> None]}
    \cup {[kind |-> "throw", res |-> Some([message |-> m])] : m \in UpstreamMessages}

\* RedeemResult reporting a transaction hash of its own.
RedeemResult_OtherHash(ans) ==
  IF ans.kind = "throw"
  THEN Return([success |-> FALSE, message |-> "Error redeeming credits."])
  ELSE IF IsSome(ans.res) /\ Val(ans.res).success
       THEN Return([success |-> TRUE,
                    txHash |-> CHOOSE h \in TxHashes : h # Val(ans.res).txHash,
                    message |-> "Credits redeemed successfully."])
       ELSE Return([success |-> FALSE, message |-> "Failed to redeem credits."])

\* RedeemResult without the catch block.
RedeemResult_NoCatch(ans) ==
  IF ans.kind = "throw" THEN Throw(Val(ans.res).message)
  ELSE IF IsSome(ans.res) /\ Val(ans.res).success
       THEN Return([success |-> TRUE, txHash |-> Val(ans.res).txHash,
                    message |-> Val(ans.res).message])
       ELSE Return([success |-> FALSE, message |-> "Failed to redeem credits."])

\* Lines 451-475: the outcome of redeemCredits from the answer of the burn
\* primitive; a rejection is caught and returned.
RedeemResult(ans) ==
  IF ans.kind = "throw"
  THEN Return([success |-> FALSE,
               message |-> IF Truthy(Val(ans.res).message) THEN Val(ans.res).message
                           ELSE "Error redeeming credits."])
  ELSE IF IsSome(ans.res) /\ Val(ans.res).success
       THEN Return([success |-> TRUE, txHash |-> Val(ans.res).txHash,
                    message |-> IF Truthy(Val(ans.res).message) THEN Val(ans.res).message
                                ELSE "Credits redeemed successfully."])
       ELSE Return([success |-> FALSE,
                    message |-> IF IsSome(ans.res) /\ Truthy(Val(ans.res).message)
                                THEN Val(ans.res).message
                                ELSE "Failed to redeem credits."])

\* Lines 439-449: configuration check, login, wallet address.
RC_Start ==
  /\ pc = "idle" /\ gpc = "idle" /\ lpc = "idle"
  /\ \E planId \in PlanIds \cup {""}, key \in {"", "nvm-key"}, amount \in EventValues,
        isLoggedIn \in BOOLEAN, w \in Wallets :
       /\ op' = "redeemCredits"
       /\ loc' = [loc EXCEPT !.planId = planId, !.nvmApiKey = key, !.creditsAmount = amount,
                             !.ourWallet = IF key = "" \/ planId = "" \/ env.AGENT_DID = ""
                                              \/ ~isLoggedIn THEN "" ELSE w]
       /\ IF key = "" \/ planId = "" \/ env.AGENT_DID = ""
          THEN /\ Finish(Throw("Missing Nevermined API key or plan DID"))
               /\ calls' = calls
          ELSE IF initializePayments(isLoggedIn) # ""
               THEN /\ Finish(Throw(initializePayments(isLoggedIn)))
                    /\ calls' = Append(calls, "getInstance")
               ELSE /\ calls' = calls \o <<"getInstance", "getAccountAddress">>
                    /\ IF ~Truthy(w)
                       THEN Finish(Throw("Wallet address not found"))
                       ELSE /\ pc' = "burn"
                            /\ result' = result
  /\ UNCHANGED <<promptVars, routeVars, serverVars, env, ddo, chainHeight, gatewayVars, llmVars>>

\* Lines 451-475: the burn primitive, its answer turned into a result.
RC_Burn ==
  /\ op = "redeemCredits" /\ pc = "burn"
  /\ \E ans \in RedeemAnswers :
       /\ calls' = Append(calls, "redeemCredits")
       /\ loc' = [loc EXCEPT !.orderResult = Some(ans)]
       /\ Finish(RedeemResult(ans))
  /\ UNCHANGED <<promptVars, routeVars, serverVars, env, op, ddo, chainHeight, gatewayVars, llmVars>>

RedeemNext == \/ RC_Start
              \/ RC_Burn

(* ------------------------- getBurnTransactionInfo --------------------- *)
\* LoopContinues with an off-by-one bound.
LoopContinues_OffByOne(attempts, burnEvent) == attempts <= MaxAttempts /\ ~IsSome(burnEvent)

\* LoopContinues without the test of the match.
LoopContinues_IgnoresMatch(attempts, burnEvent) == attempts < MaxAttempts

\* Line 363: the condition of the polling loop.
LoopContinues(attempts, burnEvent) == attempts < MaxAttempts /\ ~IsSome(burnEvent)

\* DelayFollows with a delay after every absent answer.
DelayFollows_Always(attempts) == TRUE

\* Line 372: a delay follows an absent answer while attempts remain.
DelayFollows(attempts) == attempts < DelayAttempts

\* Lines 377-384: the match as a result, or null.
BurnResult(burnEvent, planId) ==
  IF IsSome(burnEvent)
  THEN Some([txHash |-> Val(burnEvent).txHash, credits |-> Val(burnEvent).value,
             planId |-> planId])
  ELSE None

\* Lines 347-353: configuration check, login, a new PlanDDOHelper.
GB_Start ==
  /\ pc = "idle" /\ gpc = "idle" /\ lpc = "idle"
  /\ \E fromBlock \in 0..MaxHeight, key \in {"", "nvm-key"}, isLoggedIn \in BOOLEAN :
       /\ op' = "getBurnTransactionInfo"
       /\ loc' = [loc EXCEPT !.planId = env.PLAN_ID, !.nvmApiKey = key,
                             !.fromBlock = fromBlock]
       /\ ddo' = None
       /\ IF key = "" \/ env.PLAN_ID = ""
          THEN /\ Finish(Throw("Missing config"))
               /\ calls' = calls
          ELSE /\ calls' = Append(calls, "getInstance")
               /\ IF initializePayments(isLoggedIn) # ""
                  THEN Finish(Throw(initializePayments(isLoggedIn)))
                  ELSE /\ pc' = "burnLoadDDO"
                       /\ result' = result
  /\ UNCHANGED <<promptVars, routeVars, serverVars, env, chainHeight, gatewayVars, llmVars>>

\* Line 354: await planHelper.loadDDO()
GB_LoadDDO ==
  /\ op = "getBurnTransactionInfo" /\ pc = "burnLoadDDO"
  /\ \E ans \in LoadAnswers(ddo) :
       /\ calls' = LoadCalls(ddo, calls)
       /\ IF ans.kind = "throw"
          THEN Finish(Throw("getPlan rejected")) /\ ddo' = ddo
          ELSE /\ ddo' = ans.ddo
               /\ pc' = "burnResolve"
               /\ result' = result
  /\ UNCHANGED <<promptVars, routeVars, serverVars, env, op, loc, chainHeight, gatewayVars, llmVars>>

\* Lines 355-362: contract address, token id and wallet, all required.
GB_Resolve ==
  /\ op = "getBurnTransactionInfo" /\ pc = "burnResolve"
  /\ \E ans \in LoadAnswers(ddo), w \in Wallets :
       IF ans.kind = "throw"
       THEN /\ calls' = LoadCalls(ddo, calls)
            /\ Finish(Throw("getPlan rejected"))
            /\ ddo' = ddo
            /\ loc' = loc
       ELSE /\ calls' = Append(LoadCalls(ddo, calls), "getAccountAddress")
            /\ ddo' = ans.ddo
            /\ loc' = [loc EXCEPT !.contractAddress = get1155ContractAddress(ans.ddo),
                                  !.tokenId = getTokenId(loc.planId),
                                  !.ourWallet = w,
                                  !.event = None,
                                  !.attempts = 0,
                                  !.lastAnswer = ""]
            /\ IF ~Truthy(get1155ContractAddress(ans.ddo)) \/ ~Truthy(getTokenId(loc.planId))
                  \/ ~Truthy(w)
               THEN Finish(Throw("Missing contract, tokenId or wallet"))
               ELSE /\ pc' = "poll"
                    /\ result' = result
  /\ UNCHANGED <<promptVars, routeVars, serverVars, env, op, chainHeight, gatewayVars, llmVars>>

\* GB_Poll with a rejected lookup taken for an absent event: the loop goes on.
GB_Poll_RetriesOnError ==
  /\ op = "getBurnTransactionInfo" /\ pc = "poll"
  /\ LoopContinues(loc.attempts, loc.event)
  /\ \E ans \in LocatorAnswers(loc.fromBlock, chainHeight) :
       /\ calls' = Append(calls, "findBurnEvent")
       /\ result' = result
       /\ IF ans.kind = "throw" \/ ~IsSome(ans.event)
          THEN /\ loc' = [loc EXCEPT !.event = None, !.attempts = @ + 1,
                                     !.lastAnswer = IF ans.kind = "throw" THEN "throw"
                                                    ELSE "absent"]
               /\ pc' = IF DelayFollows(loc.attempts + 1) THEN "delay" ELSE "poll"
          ELSE /\ loc' = [loc EXCEPT !.event = ans.event, !.lastAnswer = "match"]
               /\ pc' = "poll"
  /\ UNCHANGED <<promptVars, routeVars, serverVars, env, op, ddo, chainHeight, gatewayVars, llmVars>>

\* Lines 363-375: one pass of the loop body up to its delay.  A rejected
\* findBurnEvent is not caught: it leaves the loop and the function.
GB_Poll ==
  /\ op = "getBurnTransactionInfo" /\ pc = "poll"
  /\ LoopContinues(loc.attempts, loc.event)
  /\ \E ans \in LocatorAnswers(loc.fromBlock, chainHeight) :
       /\ calls' = Append(calls, "findBurnEvent")
       /\ IF ans.kind = "throw"
          THEN /\ Finish(Throw("event locator rejected"))
               /\ loc' = [loc EXCEPT !.lastAnswer = "throw"]
          ELSE /\ result' = result
               /\ IF ~IsSome(ans.event)
                  THEN /\ loc' = [loc EXCEPT !.event = ans.event, !.attempts = @ + 1,
                                             !.lastAnswer = "absent"]
                       /\ pc' = IF DelayFollows(loc.attempts + 1) THEN "delay" ELSE "poll"
                  ELSE /\ loc' = [loc EXCEPT !.event = ans.event, !.lastAnswer = "match"]
                       /\ pc' = "poll"
  /\ UNCHANGED <<promptVars, routeVars, serverVars, env, op, ddo, chainHeight, gatewayVars, llmVars>>

\* Line 373: the 5 second wait between two attempts.
GB_Delay ==
  /\ op = "getBurnTransactionInfo" /\ pc = "delay"
  /\ calls' = Append(calls, "delay")
  /\ pc' = "poll"
  /\ UNCHANGED <<promptVars, routeVars, serverVars, env, op, ddo, loc, result, chainHeight, gatewayVars, llmVars>>

\* Lines 377-384: the loop has ended; the match or null is returned.
GB_Return ==
  /\ op = "getBurnTransactionInfo" /\ pc = "poll"
  /\ ~LoopContinues(loc.attempts, loc.event)
  /\ Finish(Return(BurnResult(loc.event, loc.planId)))
  /\ UNCHANGED <<promptVars, routeVars, serverVars, env, op, ddo, loc, calls, chainHeight, gatewayVars, llmVars>>

BurnInfoNext == \/ GB_Start
                \/ GB_LoadDDO
                \/ GB_Resolve
                \/ GB_Poll
                \/ GB_Delay
                \/ GB_Return

(* ------------------------------- getPlanCost ------------------------- *)
\* Lines 410-415: configuration check, login, a new PlanDDOHelper.
PC_Start ==
  /\ pc = "idle" /\ gpc = "idle" /\ lpc = "idle"
  /\ \E key \in {"", "nvm-key"}, isLoggedIn \in BOOLEAN :
       /\ op' = "getPlanCost"
       /\ loc' = [loc EXCEPT !.planId = env.PLAN_ID, !.nvmApiKey = key]
       /\ ddo' = None
       /\ IF key = "" \/ env.PLAN_ID = ""
          THEN /\ Finish(Throw("Missing config"))
               /\ calls' = calls
          ELSE /\ calls' = Append(calls, "getInstance")
               /\ IF initializePayments(isLoggedIn) # ""
                  THEN Finish(Throw(initializePayments(isLoggedIn)))
                  ELSE /\ pc' = "costLoadDDO"
                       /\ result' = result
  /\ UNCHANGED <<promptVars, routeVars, serverVars, env, chainHeight, gatewayVars, llmVars>>

\* Line 417: await planHelper.loadDDO()
PC_LoadDDO ==
  /\ op = "getPlanCost" /\ pc = "costLoadDDO"
  /\ \E ans \in LoadAnswers(ddo) :
       /\ calls' = LoadCalls(ddo, calls)
       /\ IF ans.kind = "throw"
          THEN Finish(Throw("getPlan rejected")) /\ ddo' = ddo
          ELSE /\ ddo' = ans.ddo
               /\ pc' = "costPrice"
               /\ result' = result
  /\ UNCHANGED <<promptVars, routeVars, serverVars, env, op, loc, chainHeight, gatewayVars, llmVars>>

\* Line 418: await planHelper.getPlanPrice()
PC_Price ==
  /\ op = "getPlanCost" /\ pc = "costPrice"
  /\ \E ans \in LoadAnswers(ddo) :
       /\ calls' = LoadCalls(ddo, calls)
       /\ IF ans.kind = "throw"
          THEN Finish(Throw("getPlan rejected")) /\ ddo' = ddo /\ loc' = loc
          ELSE /\ ddo' = ans.ddo
               /\ loc' = [loc EXCEPT !.planPrice = getPlanPrice(ans.ddo)]
               /\ pc' = "costCredits"
               /\ result' = result
  /\ UNCHANGED <<promptVars, routeVars, serverVars, env, op, chainHeight, gatewayVars, llmVars>>

\* Lines 419-420: await planHelper.getPlanCredits(), and the result.
PC_Credits ==
  /\ op = "getPlanCost" /\ pc = "costCredits"
  /\ \E ans \in LoadAnswers(ddo) :
       /\ calls' = LoadCalls(ddo, calls)
       /\ IF ans.kind = "throw"
          THEN Finish(Throw("getPlan rejected")) /\ ddo' = ddo
          ELSE /\ ddo' = ans.ddo
               /\ Finish(Return([planPrice |-> PriceText(loc.planPrice),
                                 planCredits |-> getPlanCredits(ans.ddo)]))
  /\ UNCHANGED <<promptVars, routeVars, serverVars, env, op, loc, chainHeight, gatewayVars, llmVars>>

PlanCostNext == \/ PC_Start
                \/ PC_LoadDDO
                \/ PC_Price
                \/ PC_Credits

(* ===================== completion texts and JSON ====================== *)
\* A completion text is a sequence of chunks; a chunk is a prose word, a
\* lone brace, or the text of one JSON value.
ObjNoCredit == "{\"action\":\"no_credit\"}"
ObjForward == "{\"action\":\"forward\",\"message\":\"ok\"}"
ObjUnknown == "{\"action\":\"dance\",\"message\":\"why not\"}"
ToolOk == "{\"tool\":\"weather.today\",\"args\":{\"city\":\"Lima\"}}"
ToolExtraKey == "{\"tool\":\"weather.today\",\"args\":{\"city\":\"Lima\",\"units\":\"C\"}}"
ToolUnknown == "{\"tool\":\"send.money\",\"args\":{}}"
ToolNullArgs == "{\"tool\":\"weather.today\",\"args\":null}"
ToolArrayArgs == "{\"tool\":\"weather.today\",\"args\":[\"Lima\"]}"
ToolNoArgs == "{\"tool\":\"weather.today\"}"
ToolTextArgs == "{\"tool\":\"weather.today\",\"args\":\"Lima\"}"
ToolNumberName == "{\"tool\":42,\"args\":{}}"
RouterObjects == {ObjNoCredit, ObjForward, ObjUnknown}
ToolObjects == {ToolOk, ToolExtraKey, ToolUnknown, ToolNullArgs, ToolArrayArgs,
                ToolNoArgs, ToolTextArgs, ToolNumberName}
ObjectChunks == RouterObjects \cup ToolObjects
ScalarChunks == {"42", "null", "\"hi\""}
RouterChunks == {"w", "{", "}", "42", "null"} \cup RouterObjects
SynthChunks == {"w"} \cup ScalarChunks \cup ToolObjects
Texts(chunks, n) == UNION {[1..k -> chunks] : k \in 0..n}
RouterTexts == Texts(RouterChunks, MaxTextLen)
SynthTexts == Texts(SynthChunks, 1) \cup {<<"w", c>> : c \in ToolObjects}

\* JavaScript values: scalars carry their text, objects carry one value for
\* every key of Keys (undefined when the key is absent).
Keys == {"action", "message", "tool", "args", "city", "units"}
JsUndefined == [t |-> "undefined", s |-> ""]
JsNull == [t |-> "null", s |-> ""]
JsArray == [t |-> "array", s |-> ""]
JsString(s) == [t |-> "string", s |-> s]
JsNumber(s) == [t |-> "number", s |-> s]
JsObject(f) == [t |-> "object", fields |-> [k \in Keys |-> IF k \in DOMAIN f THEN f[k] ELSE JsUndefined]]
JsEmptyObject == [t |-> "object", fields |-> [k \in Keys |-> JsUndefined]]
JsText(text) == [t |-> "text", chunks |-> text]
typeof(v) == CASE v.t \in {"object", "array", "null"} -> "object"
               [] v.t \in {"string", "text"} -> "string"
               [] OTHER -> v.t
Property(v, k) == IF v.t = "object" THEN v.fields[k] ELSE JsUndefined
JsTruthy(v) ==
  /\ v.t \notin {"null", "undefined"}
  /\ ~(v.t = "string" /\ v.s = "")
  /\ ~(v.t = "number" /\ v.s = "0")

ChunkValue(c) ==
  CASE c = "42" -> JsNumber("42")
    [] c = "null" -> JsNull
    [] c = "\"hi\"" -> JsString("hi")
    [] c = ObjNoCredit -> JsObject([action |-> JsString("no_credit")])
    [] c = ObjForward -> JsObject([action |-> JsString("forward"), message |-> JsString("ok")])
    [] c = ObjUnknown -> JsObject([action |-> JsString("dance"), message |-> JsString("why not")])
    [] c = ToolOk -> JsObject([tool |-> JsString("weather.today"), args |-> JsObject([city |-> JsString("Lima")])])
    [] c = ToolExtraKey -> JsObject([tool |-> JsString("weather.today"), args |-> JsObject([city |-> JsString("Lima"), units |-> JsString("C")])])
    [] c = ToolUnknown -> JsObject([tool |-> JsString("send.money"), args |-> JsEmptyObject])
    [] c = ToolNullArgs -> JsObject([tool |-> JsString("weather.today"), args |-> JsNull])
    [] c = ToolArrayArgs -> JsObject([tool |-> JsString("weather.today"), args |-> JsArray])
    [] c = ToolNoArgs -> JsObject([tool |-> JsString("weather.today")])
    [] c = ToolTextArgs -> JsObject([tool |-> JsString("weather.today"), args |-> JsString("Lima")])
    [] c = ToolNumberName -> JsObject([tool |-> JsNumber("42"), args |-> JsEmptyObject])

\* JSON.parse: a text is valid JSON exactly when it is one value, or the
\* two braces of the empty object.
JSONparse(text) ==
  IF Len(text) = 1 /\ text[1] \in ObjectChunks \cup ScalarChunks
  THEN [ok |-> TRUE, value |-> ChunkValue(text[1])]
  ELSE IF text = <<"{", "}">>
       THEN [ok |-> TRUE, value |-> JsEmptyObject]
       ELSE [ok |-> FALSE, value |-> JsUndefined]

\* text.match(/\{[\s\S]*\}/): from the first '{' to the last '}' of the text.
HasOpen(c) == c = "{" \/ c \in ObjectChunks
HasClose(c) == c = "}" \/ c \in ObjectChunks
Opens(text) == {i \in 1..Len(text) : HasOpen(text[i])}
Closes(text) == {i \in 1..Len(text) : HasClose(text[i])}
FirstOpen(text) == CHOOSE i \in Opens(text) : \A j \in Opens(text) : i <= j
LastClose(text) == CHOOSE i \in Closes(text) : \A j \in Closes(text) : j <= i
BraceMatch(text) ==
  IF /\ Opens(text) # {}
     /\ \E j \in Closes(text) : j > FirstOpen(text) \/ (j = FirstOpen(text) /\ text[j] \in ObjectChunks)
  THEN Some(SubSeq(text, FirstOpen(text), LastClose(text)))
  ELSE None

(* ------------------------------ Tool Gateway -------------------------- *)
\* Text values of JavaScript: a string, or the JSON serialization of a value.
Str(v) == [str |-> v]
Json(x) == [json |-> x]

\* The text field of a content block: undefined, a string, or another value.
TextFields == {[k |-> "undefined", v |-> ""], [k |-> "string", v |-> ""],
               [k |-> "string", v |-> "72F"], [k |-> "other", v |-> "{temp:72}"]}
Blocks == [type : {"text", "image"}, text : TextFields]
Contents == {<<>>} \cup {<<b>> : b \in Blocks} \cup {<<a, b>> : a \in Blocks, b \in Blocks}

\* What client.callTool can answer: an object whose content is an array of
\* blocks or is not an array, or a bare string.
ToolResponses == {[kind |-> "object", content |-> Some(c), s |-> ""] : c \in Contents}
                   \cup {[kind |-> "object", content |-> None, s |-> ""],
                         [kind |-> "string", content |-> None, s |-> "plain answer"]}

\* result.content.find(c => c && typeof c === "object" && c.type === "text")
FirstTextItem(content) ==
  LET idx == {i \in 1..Len(content) : content[i].type = "text"}
  IN  IF idx = {} THEN None
      ELSE Some(content[CHOOSE i \in idx : \A j \in idx : i <= j])

\* Lines 227-241 (134-150 in createTask): the text of the first text block,
\* else the serialization of the whole response.
outputText(resp) ==
  LET item == IF resp.kind = "object" /\ IsSome(resp.content)
              THEN FirstTextItem(Val(resp.content)) ELSE None
      fromItem == IF IsSome(item) /\ Val(item).text.k # "undefined"
                  THEN (IF Val(item).text.k = "string" THEN Str(Val(item).text.v)
                        ELSE Json(Val(item).text))
                  ELSE Str("")
  IN  IF fromItem # Str("") THEN fromItem
      ELSE IF resp.kind = "string" THEN Str(resp.s) ELSE Json(resp)

ToolCatalogs == {<<>>, <<"weather.today">>, <<"weather.today", "weather.today.raw">>}
GatewayOps == {"listMcpTools", "callMcpTool", "createTask"}

\* createTask lines 108-127: the tool and the arguments of the request.
CreateTaskInputs ==
  {JsString("Lima"), JsString(""), JsNull}
    \cup {ChunkValue(c) : c \in {ToolOk, ToolNoArgs, ToolNullArgs, ToolArrayArgs, ToolNumberName}}
DefaultToolName(mcpTool, raw) ==
  IF Truthy(mcpTool) THEN mcpTool
  ELSE IF Truthy(raw) THEN "weather.today.raw" ELSE "weather.today"
IsToolPayload(input) ==
  /\ typeof(input) = "object"
  /\ JsTruthy(input)
  /\ typeof(Property(input, "tool")) = "string"
StringOf(v) == IF ~JsTruthy(v) THEN ""
               ELSE IF v.t \in {"string", "number"} THEN v.s
               ELSE "[object Object]"
ToolRequest_IgnoresPayload(input, default) ==
  [name |-> default,
   arguments |-> IF StringOf(input) # "" THEN JsObject([city |-> JsString(StringOf(input))])
                 ELSE JsEmptyObject]
ToolRequest(input, default) ==
  IF IsToolPayload(input)
  THEN [name |-> Property(input, "tool").s,
        arguments |-> IF JsTruthy(Property(input, "args")) THEN Property(input, "args")
                      ELSE JsEmptyObject]
  ELSE [name |-> default,
        arguments |-> IF StringOf(input) # "" THEN JsObject([city |-> JsString(StringOf(input))])
                      ELSE JsEmptyObject]

\* What the call is made with: createTask decides it from its input and the
\* environment, callMcpTool passes its parameters on (222-225), listMcpTools
\* sends no tool request.
RequestChoices(o) ==
  IF o = "createTask"
  THEN {[input |-> Some(input), defaultTool |-> DefaultToolName(mcpTool, raw),
         request |-> Some(ToolRequest(input, DefaultToolName(mcpTool, raw)))] :
          input \in CreateTaskInputs, mcpTool \in {"", "custom.tool"}, raw \in {"", "1"}}
  ELSE IF o = "callMcpTool"
       THEN {[input |-> None, defaultTool |-> "",
              request |-> Some([name |-> "weather.today",
                                arguments |-> JsObject([city |-> JsString("Lima")])])]}
       ELSE {[input |-> None, defaultTool |-> "", request |-> None]}

\* The result of a completed call (lines 186, 243, 152-154).
GatewaySuccess(o, answer) ==
  IF o = "listMcpTools" THEN Return([tools |-> answer])
  ELSE IF o = "callMcpTool"
       THEN Return([output |-> outputText(answer), content |-> answer.content])
       ELSE Return([output |-> outputText(answer)])

\* The outcome when connect or the call rejects: the catch blocks of
\* listMcpTools (187-190) and createTask (155-160); callMcpTool has none.
GatewayFailure(o, err) ==
  IF o = "listMcpTools" THEN Return(<<>>)
  ELSE IF o = "createTask" THEN Return([output |-> Str("Error creating task")])
       ELSE Throw(err)

\* getAgentAccessToken lines 60-68: configuration check and login.
TG_Start ==
  /\ pc = "idle" /\ gpc = "idle" /\ lpc = "idle"
  /\ \E o \in GatewayOps, key \in {"", "nvm-key"}, isLoggedIn \in BOOLEAN :
       /\ gop' = o
       /\ gloc' = [gloc EXCEPT !.nvmApiKey = key]
       /\ IF key = "" \/ env.PLAN_ID = "" \/ env.AGENT_DID = ""
          THEN /\ gresult' = Throw("Missing config: nvmApiKey, planId, or agentDid")
               /\ gpc' = "done"
               /\ gcalls' = gcalls
          ELSE /\ gcalls' = Append(gcalls, "getInstance")
               /\ IF initializePayments(isLoggedIn) # ""
                  THEN /\ gresult' = Throw(initializePayments(isLoggedIn))
                       /\ gpc' = "done"
                  ELSE /\ gresult' = gresult
                       /\ gpc' = "token"
  /\ UNCHANGED <<promptVars, routeVars, serverVars, env, llmVars, bridgeVars>>

\* getAgentAccessToken lines 69-77, then the transport and the client are
\* constructed (97-103, 176-182, 212-218).
TG_Token ==
  /\ gpc = "token"
  /\ \E tokenOk \in BOOLEAN, urlOk \in BOOLEAN :
       /\ gcalls' = Append(gcalls, "getAgentAccessToken")
       /\ IF ~tokenOk
          THEN /\ gresult' = Throw("access token rejected")
               /\ gpc' = "done"
               /\ gloc' = gloc
          ELSE IF ~urlOk
               THEN /\ gresult' = Throw("Invalid URL")
                    /\ gpc' = "done"
                    /\ gloc' = gloc
               ELSE /\ gloc' = [gloc EXCEPT !.clientCreated = TRUE]
                    /\ gpc' = "connect"
                    /\ gresult' = gresult
  /\ UNCHANGED <<promptVars, routeVars, serverVars, env, llmVars, bridgeVars, gop>>

\* await client.connect(transport) (106, 184, 221)
TG_Connect ==
  /\ gpc = "connect"
  /\ \E ok \in BOOLEAN :
       /\ gcalls' = Append(gcalls, "connect")
       /\ IF ok
          THEN /\ gpc' = "invoke"
               /\ gloc' = gloc
          ELSE /\ gpc' = "close"
               /\ gloc' = [gloc EXCEPT !.failed = "connect",
                                       !.outcome = GatewayFailure(gop, "connect failed")]
  /\ UNCHANGED <<promptVars, routeVars, serverVars, env, llmVars, bridgeVars, gop, gresult>>

\* await client.listTools() (185) / await client.callTool(...) (129, 222)
\* and the result built from the answer.
TG_Invoke ==
  /\ gpc = "invoke"
  /\ \E c \in RequestChoices(gop) :
       \/ /\ gop = "listMcpTools"
          /\ gcalls' = Append(gcalls, "listTools")
          /\ \E tools \in ToolCatalogs :
               gloc' = [gloc EXCEPT !.outcome = GatewaySuccess(gop, tools)]
       \/ /\ gop # "listMcpTools"
          /\ gcalls' = Append(gcalls, "callTool")
          /\ \E resp \in ToolResponses :
               gloc' = [gloc EXCEPT !.outcome = GatewaySuccess(gop, resp),
                                    !.response = Some(resp),
                                    !.input = c.input, !.defaultTool = c.defaultTool,
                                    !.request = c.request]
       \/ /\ gcalls' = Append(gcalls, IF gop = "listMcpTools" THEN "listTools" ELSE "callTool")
          /\ gloc' = [gloc EXCEPT !.failed = "invoke",
                                  !.outcome = GatewayFailure(gop, "tool call failed"),
                                  !.input = c.input, !.defaultTool = c.defaultTool,
                                  !.request = c.request]
  /\ gpc' = "close"
  /\ UNCHANGED <<promptVars, routeVars, serverVars, env, llmVars, bridgeVars, gop, gresult>>

\* Whether the finally block closes the client (161-163, 191-193, 245-247).
ClosesClient(clientCreated) == clientCreated

\* AfterClose with the rejection of close not swallowed.
AfterClose_Propagates(outcome, closeOk) == IF closeOk THEN outcome ELSE Throw("close failed")

\* The outcome of the operation after the finally block: a rejected close is
\* swallowed by the empty catch.
AfterClose(outcome, closeOk) == outcome

\* finally { try { await client.close() } catch {} }
TG_Close ==
  /\ gpc = "close"
  /\ \E closeOk \in BOOLEAN :
       /\ gcalls' = IF ClosesClient(gloc.clientCreated) THEN Append(gcalls, "close") ELSE gcalls
       /\ gloc' = [gloc EXCEPT !.closeFailed = ~closeOk]
       /\ gresult' = AfterClose(gloc.outcome, closeOk)
  /\ gpc' = "done"
  /\ UNCHANGED <<promptVars, routeVars, serverVars, env, llmVars, bridgeVars, gop>>

GatewayNext == \/ TG_Start
               \/ TG_Token
               \/ TG_Connect
               \/ TG_Invoke
               \/ TG_Close

(* ============================== llmRouter ============================= *)
CompletionAnswers(texts) == {[kind |-> "throw"]} \cup {[kind |-> "value", text |-> x] : x \in texts}

\* lines 448-460: the parsed decision, or the failure of the parse
RouterDecision(text) ==
  IF JSONparse(text).ok
  THEN Return(JSONparse(text).value)
  ELSE IF IsSome(BraceMatch(text))
       THEN IF JSONparse(Val(BraceMatch(text))).ok
            THEN Return(JSONparse(Val(BraceMatch(text))).value)
            ELSE Throw("SyntaxError")
       ELSE Throw("LLM did not return valid JSON")

\* a rejected completion request is not caught: the call ends there
AfterCompletionRejected_Retry(step) == step
AfterCompletionRejected(step) == "done"

Authorizations == {"", "Basic x", "Bearer ", "Bearer nvm-key"}
BearerKey(a) == IF a = "Bearer nvm-key" THEN "nvm-key" ELSE ""
BalanceAnswers == {[kind |-> "throw"]} \cup {[kind |-> "value", balance |-> n] : n \in 0..MaxCredits}

\* POST /api/llm-router up to the credit lookup
LR_Start ==
  /\ pc = "idle" /\ gpc = "idle" /\ lpc = "idle"
  /\ \E isString \in BOOLEAN, a \in Authorizations :
       /\ lop' = "llmRouter"
       /\ IF ~isString
          THEN /\ lloc' = [lloc EXCEPT !.messageIsString = FALSE, !.authorization = a, !.status = 400]
               /\ lpc' = "done"
          ELSE IF BearerKey(a) # ""
               THEN /\ lloc' = [lloc EXCEPT !.messageIsString = TRUE, !.authorization = a]
                    /\ lpc' = "credits"
               ELSE /\ lloc' = [lloc EXCEPT !.messageIsString = TRUE, !.authorization = a,
                                            !.lookup = "skipped", !.credits = Some(0)]
                    /\ lpc' = "routerCompletion"
  /\ UNCHANGED <<promptVars, routeVars, serverVars, env, bridgeVars, gatewayVars, lcalls, lresult>>

\* the credits handed to llmRouter when getUserCredits throws
CreditsOnLookupFailure_Propagates == None
CreditsOnLookupFailure == Some(0)

\* getUserCredits inside the route's inner try/catch
LR_Credits ==
  /\ lpc = "credits"
  /\ IF env.PLAN_ID = ""
     THEN /\ lloc' = [lloc EXCEPT !.lookup = "failed", !.credits = CreditsOnLookupFailure]
          /\ lcalls' = lcalls
     ELSE \E isLoggedIn \in BOOLEAN, ans \in BalanceAnswers :
            IF initializePayments(isLoggedIn) # ""
            THEN /\ lloc' = [lloc EXCEPT !.lookup = "failed", !.credits = CreditsOnLookupFailure]
                 /\ lcalls' = Append(lcalls, "getInstance")
            ELSE /\ lcalls' = lcalls \o <<"getInstance", "getPlanBalance">>
                 /\ IF ans.kind = "throw"
                    THEN lloc' = [lloc EXCEPT !.lookup = "failed", !.credits = CreditsOnLookupFailure]
                    ELSE lloc' = [lloc EXCEPT !.lookup = "ok", !.credits = Some(ans.balance)]
  /\ lpc' = IF IsSome(lloc'.credits) THEN "routerCompletion" ELSE "done"
  /\ lresult' = IF IsSome(lloc'.credits) THEN lresult ELSE Throw("credit lookup failed")
  /\ UNCHANGED <<promptVars, routeVars, serverVars, env, bridgeVars, gatewayVars, lop>>

\* RouteResponse rewriting every action it does not know to no_action.
RouteResponse_Normalized(decision) ==
  IF decision.t = "object" /\ Property(decision, "action").s \notin {"forward", "no_credit", "order_plan", "no_action"}
  THEN JsObject([action |-> JsString("no_action")])
  ELSE decision
\* line 94: res.json(result)
RouteResponse(decision) == decision

\* llmRouter: the completion request, the parse, and the route's response
LR_Completion ==
  /\ lpc = "routerCompletion"
  /\ \E ans \in CompletionAnswers(RouterTexts) :
       /\ lcalls' = lcalls \o <<"llmRouter", "completions.create">>
       /\ IF ans.kind = "throw"
          THEN /\ lpc' = AfterCompletionRejected(lpc)
               /\ lresult' = Throw("completion failed")
               /\ lloc' = [lloc EXCEPT !.status = 500]
          ELSE /\ lpc' = "done"
               /\ lresult' = RouterDecision(ans.text)
               /\ lloc' = [lloc EXCEPT !.text = Some(ans.text),
                                       !.status = IF RouterDecision(ans.text).kind = "return" THEN 200 ELSE 500,
                                       !.body = IF RouterDecision(ans.text).kind = "return"
                                                THEN Some(RouteResponse(RouterDecision(ans.text).value))
                                                ELSE None]
  /\ UNCHANGED <<promptVars, routeVars, serverVars, env, bridgeVars, gatewayVars, lop>>

RouterNext == \/ LR_Start
              \/ LR_Credits
              \/ LR_Completion

(* ========================= llmIntentSynthesizer ======================= *)
SynthCatalogs == {None, Some(<<[name |-> "weather.today", schema |-> {"city"}]>>)}

\* lines 533-541: the output counts as a tool call
IsToolCall(obj) ==
  /\ JsTruthy(obj)
  /\ typeof(Property(obj, "tool")) = "string"
  /\ typeof(Property(obj, "args")) = "object"

\* lines 532-542
SynthResult(catalog, text) ==
  IF IsSome(catalog) /\ JSONparse(text).ok /\ IsToolCall(JSONparse(text).value)
  THEN Return(JSONparse(text).value)
  ELSE Return(JsText(text))

\* llmIntentSynthesizer up to the completion request
LS_Start ==
  /\ pc = "idle" /\ gpc = "idle" /\ lpc = "idle"
  /\ \E c \in SynthCatalogs :
       /\ lop' = "llmIntentSynthesizer"
       /\ lloc' = [lloc EXCEPT !.catalog = c]
       /\ lpc' = "synthCompletion"
  /\ UNCHANGED <<promptVars, routeVars, serverVars, env, bridgeVars, gatewayVars, lcalls, lresult>>

LS_Completion ==
  /\ lpc = "synthCompletion"
  /\ \E ans \in CompletionAnswers(SynthTexts) :
       /\ lcalls' = Append(lcalls, "completions.create")
       /\ IF ans.kind = "throw"
          THEN /\ lpc' = AfterCompletionRejected(lpc)
               /\ lresult' = Throw("completion failed")
               /\ lloc' = lloc
          ELSE /\ lpc' = "done"
               /\ lresult' = SynthResult(lloc.catalog, ans.text)
               /\ lloc' = [lloc EXCEPT !.text = Some(ans.text)]
  /\ UNCHANGED <<promptVars, routeVars, serverVars, env, bridgeVars, gatewayVars, lop>>

SynthNext == \/ LS_Start
             \/ LS_Completion

(* ============================ promptService =========================== *)
\* loadPrompt and reloadPrompt of src/server/services/promptService.ts.  The
\* functions are synchronous; the file system is not theirs: statSync and
\* readFileSync are two looks at it, and a file may change between them.

\* Lines 47-55: the text returned when the file cannot be read.
FallbackText(filename) ==
  IF filename = "agent.prompt" THEN "You are a helpful AI assistant."
  ELSE IF filename = "llm-router.prompt" THEN "You are an assistant that routes user messages."
  ELSE "Default prompt for " \o filename

\* IsFresh taking every cached entry for current.
IsFresh_Always(cached, mtime) == IsSome(cached)
\* Line 30: cached && stats.mtime.getTime() <= cached.lastModified
IsFresh(cached, mtime) == IsSome(cached) /\ mtime <= Val(cached).lastModified

\* AfterDelete leaving the entry in place.
AfterDelete_Kept(cache, filename) == cache
\* Line 81: promptCache.delete(filename)
AfterDelete(cache, filename) == [cache EXCEPT ![filename] = None]

\* AfterCatch caching the fallback text under the time of the entry it had.
AfterCatch_StoresFallback(cache, filename) ==
  [cache EXCEPT ![filename] = Some([content |-> FallbackText(filename), lastModified |-> 0,
                                    stamped |-> FallbackText(filename)])]
\* Lines 43-56: the catch block returns a fallback and leaves the cache alone.
AfterCatch(cache, filename) == cache

\* Lines 23-32 of loadPrompt, run with the cache entry `cached`: statSync
\* fails on a missing file; a fresh entry is returned without a read;
\* otherwise the read is next.  `stamped` remembers what the file held when
\* statSync looked at it.
AfterStat(fn, filename, cached) ==
  LET file == promptFiles[filename]
      call == [IdleCall EXCEPT !.fn = fn, !.filename = filename, !.entryAtLoad = cached]
  IN IF file.status = "missing"
     THEN [call EXCEPT !.pc = "done", !.failed = TRUE,
                       !.result = Some(FallbackText(filename))]
     ELSE IF IsFresh(cached, file.mtime)
          THEN [call EXCEPT !.pc = "done", !.result = Some(Val(cached).content)]
          ELSE [call EXCEPT !.pc = "read", !.mtimeSeen = file.mtime,
                            !.statContent = file.content]

\* loadPrompt(filename), lines 21-32 and the catch of a failed statSync
PS_Load ==
  /\ promptCall.pc \in {"idle", "done"}
  /\ \E filename \in Filenames :
       /\ promptCall' = [AfterStat("loadPrompt", filename, promptCache[filename])
                           EXCEPT !.hadEntry = IsSome(promptCache[filename])]
       /\ promptCache' = IF promptFiles[filename].status = "missing"
                         THEN AfterCatch(promptCache, filename)
                         ELSE promptCache
  /\ UNCHANGED <<promptFiles, routeVars, serverVars, baseVars>>

\* reloadPrompt(filename), lines 80-83: the entry is deleted, then loadPrompt
\* runs up to its read.
PS_Reload ==
  /\ promptCall.pc \in {"idle", "done"}
  /\ \E filename \in Filenames :
       /\ promptCall' = [AfterStat("reloadPrompt", filename,
                                   AfterDelete(promptCache, filename)[filename])
                           EXCEPT !.hadEntry = IsSome(promptCache[filename])]
       /\ promptCache' = IF promptFiles[filename].status = "missing"
                         THEN AfterCatch(AfterDelete(promptCache, filename), filename)
                         ELSE AfterDelete(promptCache, filename)
  /\ UNCHANGED <<promptFiles, routeVars, serverVars, baseVars>>

\* Lines 35-42: readFileSync, the cache entry, the return; lines 43-56 when
\* the read throws.
PS_Read ==
  /\ promptCall.pc = "read"
  /\ LET filename == promptCall.filename
         file == promptFiles[filename]
     IN IF file.status # "ok"
        THEN /\ promptCall' = [promptCall EXCEPT !.pc = "done", !.reads = @ + 1,
                                                 !.mtimeSeen = 0, !.statContent = "",
                                                 !.failed = TRUE,
                                                 !.result = Some(FallbackText(filename))]
             /\ promptCache' = AfterCatch(promptCache, filename)
        ELSE /\ promptCall' = [promptCall EXCEPT !.pc = "done", !.reads = @ + 1,
                                                 !.mtimeSeen = 0, !.statContent = "",
                                                 !.result = Some(file.content)]
             /\ promptCache' = [promptCache EXCEPT ![filename] =
                                   Some([content |-> file.content,
                                         lastModified |-> promptCall.mtimeSeen,
                                         stamped |-> promptCall.statContent])]
  /\ UNCHANGED <<promptFiles, routeVars, serverVars, baseVars>>

RECURSIVE TotalEdits(_)
TotalEdits(fs) == IF fs = {} THEN 0
                  ELSE LET f == CHOOSE x \in fs : TRUE
                       IN promptFiles[f].edits + TotalEdits(fs \ {f})

\* Somebody changes a prompt file: new content, a new modification time
\* (later, the same or earlier), or the file removed or put back.
\* `orderly` stays true while every change of the file moved its
\* modification time forward and none fell between the statSync and the
\* readFileSync of a call.
PS_Modify ==
  /\ TotalEdits(Filenames) < MaxEdits
  /\ \E filename \in Filenames, content \in PromptTexts, mtime \in 0..MaxMtime,
        status \in {"ok", "missing"} :
       LET file == promptFiles[filename]
           changed == content # file.content \/ mtime # file.mtime
           during == promptCall.pc = "read" /\ promptCall.filename = filename
       IN /\ (changed \/ status # file.status)
          /\ promptFiles' = [promptFiles EXCEPT ![filename] =
                               [status |-> status, content |-> content, mtime |-> mtime,
                                edits |-> file.edits + 1,
                                orderly |-> file.orderly /\ ~(changed /\ mtime <= file.mtime)
                                              /\ ~(changed /\ during)]]
          /\ promptCall' = IF during /\ changed THEN [promptCall EXCEPT !.raced = TRUE]
                           ELSE promptCall
  /\ UNCHANGED <<promptCache, routeVars, serverVars, baseVars>>

PromptNext == \/ PS_Load
              \/ PS_Reload
              \/ PS_Read
              \/ PS_Modify

(* ======================= requests in flight together ================== *)
\* The server runs its handlers on one event loop: a handler runs from one
\* await to the next without interruption, and at an await any other
\* request whose awaited answer has arrived may run.  Here two requests are
\* followed together; each step below is the code between two awaits.
ServerOps == {"orderPlan", "getBurnTransactionInfo", "getUserCredits", "callMcpTool",
              "listMcpTools"}
ServerPlanPrice == [kind |-> "num", units |-> 2, scale |-> 1]
FirstStep(o) == CASE o = "orderPlan" -> "balance"
                  [] o = "getBurnTransactionInfo" -> "poll"
                  [] o = "getUserCredits" -> "query"
                  [] o \in {"callMcpTool", "listMcpTools"} -> "token"

\* What payments.plans.orderPlan can answer: it succeeds only while the
\* wallet covers the price, and a success debits the wallet.
PurchaseOutcomes(balance) ==
  IF balance >= ServerPlanPrice.units THEN {"success", "unsuccessful", "throw"}
  ELSE {"unsuccessful", "throw"}

\* Runnable with every wait holding the whole server.
Runnable_BlockingWait(r) == \A q \in Requests \ {r} : reqs[q].pc # "delay"
\* Runnable with orderPlan requests taken one at a time.
Runnable_OneOrderAtATime(r) ==
  \A q \in Requests \ {r} : ~(reqs[q].op = "orderPlan" /\ reqs[q].pc \in {"snapshot", "purchase"})
\* A request whose awaited answer has arrived can run: no handler holds a
\* lock, and the delay is a timer, not a busy wait.
Runnable(r) == TRUE

SetReq(r, rec) == reqs' = [reqs EXCEPT ![r] = rec]

\* A request arrives; the handler runs up to its first await on the chain,
\* the event locator or the ledger.
SV_Start(r) ==
  /\ reqs[r].pc = "idle"
  /\ Runnable(r)
  /\ \E o \in ServerOps :
       SetReq(r, [reqs[r] EXCEPT !.op = o, !.pc = FirstStep(o),
                                 !.during = {q \in Requests \ {r} : reqs[q].pc = "delay"}])
  /\ UNCHANGED <<promptVars, routeVars, baseVars, wallet, ledgerCredits>>

\* orderPlanCredits lines 288-298: the pre-flight balance check
SV_BalanceCheck(r) ==
  /\ reqs[r].op = "orderPlan" /\ reqs[r].pc = "balance"
  /\ Runnable(r)
  /\ \E hasBalance \in hasSufficientERC20Balance(wallet, ServerPlanPrice) :
       IF InsufficientBalance(hasBalance) # Pending
       THEN SetReq(r, [reqs[r] EXCEPT !.seenBalance = Some(wallet), !.pc = "done",
                                      !.result = InsufficientBalance(hasBalance)])
       ELSE SetReq(r, [reqs[r] EXCEPT !.seenBalance = Some(wallet), !.pc = "snapshot"])
  /\ UNCHANGED <<promptVars, routeVars, baseVars, wallet, ledgerCredits>>

\* line 301: the chain height snapshot
SV_Snapshot(r) ==
  /\ reqs[r].op = "orderPlan" /\ reqs[r].pc = "snapshot"
  /\ Runnable(r)
  /\ SetReq(r, [reqs[r] EXCEPT !.pc = "purchase"])
  /\ UNCHANGED <<promptVars, routeVars, baseVars, wallet, ledgerCredits>>

\* lines 302-334: the purchase primitive and the result
SV_Purchase(r) ==
  /\ reqs[r].op = "orderPlan" /\ reqs[r].pc = "purchase"
  /\ Runnable(r)
  /\ \E outcome \in PurchaseOutcomes(wallet) :
       IF outcome = "success"
       THEN /\ wallet' = wallet - ServerPlanPrice.units
            /\ SetReq(r, [reqs[r] EXCEPT !.purchases = @ + 1, !.pc = "done",
                                         !.result = Return([success |-> TRUE])])
       ELSE /\ wallet' = wallet
            /\ SetReq(r, [reqs[r] EXCEPT !.purchases = @ + 1, !.pc = "done",
                                         !.result = Return([success |-> FALSE])])
  /\ UNCHANGED <<promptVars, routeVars, baseVars, ledgerCredits>>

\* getBurnTransactionInfo lines 363-371 and 377-384: one attempt of the poll
SV_Poll(r) ==
  /\ reqs[r].op = "getBurnTransactionInfo" /\ reqs[r].pc = "poll"
  /\ Runnable(r)
  /\ \E answer \in {"absent", "match", "throw"} :
       CASE answer = "throw" ->
              SetReq(r, [reqs[r] EXCEPT !.pc = "done", !.result = Throw("event locator rejected")])
         [] answer = "match" ->
              SetReq(r, [reqs[r] EXCEPT !.pc = "done", !.result = Return(Some("0xaa"))])
         [] answer = "absent" ->
              IF DelayFollows(reqs[r].attempts + 1)
              THEN SetReq(r, [reqs[r] EXCEPT !.attempts = @ + 1, !.pc = "delay"])
              ELSE IF LoopContinues(reqs[r].attempts + 1, None)
                   THEN SetReq(r, [reqs[r] EXCEPT !.attempts = @ + 1])
                   ELSE SetReq(r, [reqs[r] EXCEPT !.attempts = @ + 1, !.pc = "done",
                                                  !.result = Return(None)])
  /\ UNCHANGED <<promptVars, routeVars, baseVars, wallet, ledgerCredits>>

\* line 373: the timer fires and the loop goes on
SV_Delay(r) ==
  /\ reqs[r].op = "getBurnTransactionInfo" /\ reqs[r].pc = "delay"
  /\ Runnable(r)
  /\ reqs' = [q \in Requests |->
                IF q = r THEN [reqs[r] EXCEPT !.delays = @ + 1, !.pc = "poll"]
                ELSE IF reqs[q].pc # "done" THEN [reqs[q] EXCEPT !.during = @ \ {r}]
                ELSE reqs[q]]
  /\ UNCHANGED <<promptVars, routeVars, baseVars, wallet, ledgerCredits>>

\* QueryResult answering what an earlier request was told.
QueryResult_Reused(r) ==
  IF \E q \in Requests \ {r} : reqs[q].op = "getUserCredits" /\ reqs[q].result.kind = "return"
  THEN reqs[CHOOSE q \in Requests \ {r} : reqs[q].op = "getUserCredits" /\ reqs[q].result.kind = "return"].result
  ELSE Return(ledgerCredits)
\* getUserCredits lines 46-48: the balance the ledger reports now
QueryResult(r) == Return(ledgerCredits)

\* getUserCredits lines 46-48: the ledger balance query
SV_Query(r) ==
  /\ reqs[r].op = "getUserCredits" /\ reqs[r].pc = "query"
  /\ Runnable(r)
  /\ \E ok \in BOOLEAN :
       SetReq(r, [reqs[r] EXCEPT !.queries = @ + 1, !.pc = "done",
                                 !.result = IF ok THEN QueryResult(r)
                                            ELSE Throw("getPlanBalance rejected")])
  /\ UNCHANGED <<promptVars, routeVars, baseVars, wallet, ledgerCredits>>

\* The token and the client of a Tool Gateway call are locals of the call:
\* `const { accessToken } = await getAgentAccessToken(...)` and
\* `new McpClient(...)` (175-182, 211-218).  A token is named after the call
\* that asked for it, a session after the call that constructed its client.
TokenFor(r) == r
\* SessionFor with one client kept by the module and shared by the calls.
SessionFor_Shared(r) ==
  IF \E q \in Requests \ {r} : IsSome(reqs[q].session)
  THEN Val(reqs[CHOOSE q \in Requests \ {r} : IsSome(reqs[q].session)].session)
  ELSE r
SessionFor(r) == r

\* getAgentAccessToken lines 69-72: the ledger issues the token or rejects;
\* the rejection is outside the try block of the operation.
SV_Token(r) ==
  /\ reqs[r].op \in {"callMcpTool", "listMcpTools"} /\ reqs[r].pc = "token"
  /\ Runnable(r)
  /\ \E ok \in BOOLEAN :
       IF ok
       THEN SetReq(r, [reqs[r] EXCEPT !.tokenCalls = @ + 1, !.token = Some(TokenFor(r)),
                                      !.pc = "connect"])
       ELSE SetReq(r, [reqs[r] EXCEPT !.tokenCalls = @ + 1, !.pc = "done",
                                      !.result = Throw("access token rejected")])
  /\ UNCHANGED <<promptVars, routeVars, baseVars, wallet, ledgerCredits>>

\* await client.connect(transport) (184, 221): the session is opened with
\* the token in its Authorization header.
SV_Connect(r) ==
  /\ reqs[r].op \in {"callMcpTool", "listMcpTools"} /\ reqs[r].pc = "connect"
  /\ Runnable(r)
  /\ \E ok \in BOOLEAN :
       IF ok
       THEN SetReq(r, [reqs[r] EXCEPT !.connects = @ + 1, !.session = Some(SessionFor(r)),
                                      !.authWith = reqs[r].token, !.pc = "call"])
       ELSE SetReq(r, [reqs[r] EXCEPT !.connects = @ + 1, !.pc = "close",
                                      !.outcome = GatewayFailure(reqs[r].op, "connect failed")])
  /\ UNCHANGED <<promptVars, routeVars, baseVars, wallet, ledgerCredits>>

\* await client.listTools() (185) / await client.callTool(...) (222-225)
SV_Call(r) ==
  /\ reqs[r].op \in {"callMcpTool", "listMcpTools"} /\ reqs[r].pc = "call"
  /\ Runnable(r)
  /\ \E ok \in BOOLEAN :
       SetReq(r, [reqs[r] EXCEPT !.sentOn = reqs[r].session, !.pc = "close",
                                 !.outcome = IF ok THEN Return("answered")
                                             ELSE GatewayFailure(reqs[r].op, "tool call failed")])
  /\ UNCHANGED <<promptVars, routeVars, baseVars, wallet, ledgerCredits>>

\* finally { try { await client.close() } catch {} } (191-193, 245-247)
SV_Close(r) ==
  /\ reqs[r].op \in {"callMcpTool", "listMcpTools"} /\ reqs[r].pc = "close"
  /\ Runnable(r)
  /\ SetReq(r, [reqs[r] EXCEPT !.pc = "done", !.result = reqs[r].outcome])
  /\ UNCHANGED <<promptVars, routeVars, baseVars, wallet, ledgerCredits>>

\* The client of a burn-confirmation request goes away; nothing in the route
\* or in getBurnTransactionInfo listens for it.
SV_Disconnect(r) ==
  /\ reqs[r].op = "getBurnTransactionInfo"
  /\ reqs[r].pc \in {"poll", "delay"}
  /\ reqs[r].lostAt = ""
  /\ SetReq(r, [reqs[r] EXCEPT !.lostAt = reqs[r].pc])
  /\ UNCHANGED <<promptVars, routeVars, baseVars, wallet, ledgerCredits>>

\* The credit balance changes on the ledger (credits bought or burnt).
SV_LedgerChanges ==
  /\ \E n \in 0..MaxCredits :
       /\ n # ledgerCredits
       /\ ledgerCredits' = n
  /\ UNCHANGED <<promptVars, routeVars, baseVars, reqs, wallet>>

ServerNext ==
  \/ \E r \in Requests : SV_Start(r)
  \/ \E r \in Requests : SV_BalanceCheck(r)
  \/ \E r \in Requests : SV_Snapshot(r)
  \/ \E r \in Requests : SV_Purchase(r)
  \/ \E r \in Requests : SV_Poll(r)
  \/ \E r \in Requests : SV_Delay(r)
  \/ \E r \in Requests : SV_Query(r)
  \/ \E r \in Requests : SV_Disconnect(r)
  \/ \E r \in Requests : SV_Token(r)
  \/ \E r \in Requests : SV_Connect(r)
  \/ \E r \in Requests : SV_Call(r)
  \/ \E r \in Requests : SV_Close(r)
  \/ SV_LedgerChanges

ServerInit ==
  /\ env = [NVM_ENVIRONMENT |-> "testing", PLAN_ID |-> "did:plan:A", AGENT_DID |-> "did:agent"]
  /\ chainHeight = 0
  /\ BridgeIdle
  /\ GatewayIdle
  /\ gloc = InitGloc
  /\ LlmIdle
  /\ reqs = [r \in Requests |-> IdleReq]
  /\ wallet \in 0..MaxBalance
  /\ ledgerCredits \in 0..MaxCredits
  /\ RouteIdle
  /\ PromptIdle

(* =============================== routes =============================== *)
\* The credential-protected routes of registerRoutes (src/server/routes.ts):
\* the checks a handler makes before it calls its service, the call, and
\* the response it sends for what the service returned or threw.

\* getUserCredits lines 39-45: configuration check and login
UC_Start ==
  /\ pc = "idle" /\ gpc = "idle" /\ lpc = "idle"
  /\ \E key \in {"", "nvm-key"}, isLoggedIn \in BOOLEAN :
       /\ op' = "getUserCredits"
       /\ loc' = [loc EXCEPT !.planId = env.PLAN_ID, !.nvmApiKey = key]
       /\ IF key = "" \/ env.PLAN_ID = ""
          THEN /\ Finish(Throw("Missing Nevermined API key or plan DID"))
               /\ calls' = calls
          ELSE /\ calls' = Append(calls, "getInstance")
               /\ IF initializePayments(isLoggedIn) # ""
                  THEN Finish(Throw(initializePayments(isLoggedIn)))
                  ELSE /\ pc' = "creditBalance"
                       /\ result' = result
  /\ UNCHANGED <<promptVars, routeVars, serverVars, env, ddo, chainHeight, gatewayVars, llmVars>>

\* getUserCredits lines 46-48: await payments.plans.getPlanBalance(planId)
UC_Balance ==
  /\ op = "getUserCredits" /\ pc = "creditBalance"
  /\ \E ans \in BalanceAnswers :
       /\ calls' = Append(calls, "getPlanBalance")
       /\ IF ans.kind = "throw"
          THEN Finish(Throw("getPlanBalance rejected"))
          ELSE Finish(Return(ans.balance))
  /\ UNCHANGED <<promptVars, routeVars, serverVars, env, op, ddo, loc, chainHeight, gatewayVars,
                 llmVars>>

\* getTask lines 393-399: a constant answer, no call
GT_Return ==
  /\ pc = "idle" /\ gpc = "idle" /\ lpc = "idle"
  /\ op' = "getTask"
  /\ Finish(Return([ok |-> TRUE]))
  /\ UNCHANGED <<promptVars, routeVars, serverVars, env, ddo, loc, calls, chainHeight,
                 gatewayVars, llmVars>>

\* The service each route calls.
ServiceOf(route) ==
  CASE route = "/api/credit" -> "getUserCredits"
    [] route = "/api/order-plan" -> "orderPlan"
    [] route = "/api/agent" -> "createTask"
    [] route = "/api/mcp/tools" -> "listMcpTools"
    [] route = "/api/mcp/tool" -> "callMcpTool"
    [] route = "/api/find-burn-tx" -> "getBurnTransactionInfo"
    [] route = "/api/task" -> "getTask"
    [] route = "/api/plan/cost" -> "getPlanCost"
    [] route = "/api/burn-credits" -> "redeemCredits"
ProtectedRoutes == {"/api/credit", "/api/order-plan", "/api/agent", "/api/mcp/tools",
                    "/api/mcp/tool", "/api/find-burn-tx", "/api/task", "/api/plan/cost",
                    "/api/burn-credits"}

\* The checks of a handler before its service call, in the order of the
\* source: "param" is the test of the body or query parameter, "planId"
\* the test of process.env.PLAN_ID, "auth" the two tests of the header.
PreChecks(route) ==
  CASE route \in {"/api/credit", "/api/mcp/tools", "/api/plan/cost"} -> <<"auth">>
    [] route = "/api/order-plan" -> <<"planId", "auth">>
    [] route \in {"/api/agent", "/api/mcp/tool", "/api/find-burn-tx", "/api/task"} ->
         <<"param", "auth">>
    [] route = "/api/burn-credits" -> <<"param", "planId", "auth">>

\* Whether the service call of the handler stands inside a try block.
HasTryCatch(route) == route \notin {"/api/order-plan", "/api/task", "/api/burn-credits"}

\* An Authorization header is a sequence of tokens; <<"Bearer", " ">> is
\* the text "Bearer ".  None is the header left out.
BearerPrefix == <<"Bearer", " ">>
AuthHeaders ==
  {None} \cup {Some(h) : h \in {<<>>, <<"Basic", " ", "nvm-key">>, <<"Bearer">>,
                                 <<"Bearer", " ">>, <<"Bearer", " ", " ">>,
                                 <<"Bearer", " ", "nvm-key">>, <<"bearer", " ", "nvm-key">>,
                                 <<"nvm-key">>, <<"Bearer", " ", "nvm-key", " ">>,
                                 <<"nvm-key", " ", "Bearer", " ">>}}

\* String.prototype.startsWith
StartsWith(s, prefix) == Len(s) >= Len(prefix) /\ SubSeq(s, 1, Len(prefix)) = prefix
\* String.prototype.replace with a string pattern: the first occurrence
RECURSIVE ReplaceFirst(_, _)
ReplaceFirst(s, pattern) ==
  IF Len(s) < Len(pattern) THEN s
  ELSE IF StartsWith(s, pattern) THEN SubSeq(s, Len(pattern) + 1, Len(s))
       ELSE <<Head(s)>> \o ReplaceFirst(Tail(s), pattern)
\* String.prototype.trim
RECURSIVE Trim(_)
Trim(s) == IF s = <<>> THEN s
           ELSE IF Head(s) = " " THEN Trim(Tail(s))
                ELSE IF s[Len(s)] = " " THEN Trim(SubSeq(s, 1, Len(s) - 1))
                     ELSE s

\* HasBearer taking any header that is there.
HasBearer_AnyScheme(a) == IsSome(a) /\ Val(a) # <<>>
\* authHeader && authHeader.startsWith("Bearer ")
HasBearer(a) == IsSome(a) /\ Val(a) # <<>> /\ StartsWith(Val(a), BearerPrefix)
\* authHeader.replace("Bearer ", "").trim()
ApiKey(a) == Trim(ReplaceFirst(Val(a), BearerPrefix))

\* The status a check answers with, 0 when it passes.
CheckStatus(check, a, paramOk) ==
  CASE check = "param" -> IF paramOk THEN 0 ELSE 400
    [] check = "planId" -> IF env.PLAN_ID = "" THEN 500 ELSE 0
    [] check = "auth" -> IF ~HasBearer(a) THEN 401
                         ELSE IF ApiKey(a) = <<>> THEN 401 ELSE 0
RECURSIVE FirstFailure(_, _, _)
FirstFailure(checks, a, paramOk) ==
  IF checks = <<>> THEN 0
  ELSE IF CheckStatus(Head(checks), a, paramOk) # 0
       THEN CheckStatus(Head(checks), a, paramOk)
       ELSE FirstFailure(Tail(checks), a, paramOk)

\* ResponseStatus answering 500 when the poll found nothing.
ResponseStatus_NotFoundIsError(route, value) ==
  IF route = "/api/find-burn-tx" /\ ~IsSome(value) THEN 500
  ELSE IF route = "/api/find-burn-tx" THEN 200
       ELSE IF route = "/api/order-plan" THEN (IF value.success THEN 200 ELSE 402)
            ELSE IF route = "/api/burn-credits" THEN (IF value.success THEN 200 ELSE 400)
                 ELSE 200
\* The status sent for what the service returned (124-135, 301-305,
\* 392-396; res.json elsewhere).
ResponseStatus(route, value) ==
  CASE route = "/api/order-plan" -> IF value.success THEN 200 ELSE 402
    [] route = "/api/burn-credits" -> IF value.success THEN 200 ELSE 400
    [] route = "/api/find-burn-tx" ->
         IF IsSome(value) /\ Truthy(Val(value).txHash) THEN 200 ELSE 404
    [] OTHER -> 200

\* What becomes of a rejection no try block catches: Express 4 does not
\* watch the promise of an async handler, so nothing is sent; a router that
\* forwards it reaches the error middleware of index.ts (90-95).
RejectionOutcomes == {"unhandled", "errorMiddleware"}

\* A request arrives: the handler runs its checks and answers, or goes on
\* to its service call.
RT_Receive ==
  /\ http.pc = "idle"
  /\ pc = "idle" /\ gpc = "idle" /\ lpc = "idle"
  /\ \E route \in ProtectedRoutes, a \in AuthHeaders, paramOk \in BOOLEAN :
       LET status == FirstFailure(PreChecks(route), a, paramOk)
           request == [IdleHttp EXCEPT !.route = route, !.authorization = a,
                                       !.paramOk = paramOk]
       IN http' = IF status # 0
                  THEN [request EXCEPT !.pc = "done", !.status = status, !.responses = 1]
                  ELSE [request EXCEPT !.pc = "service", !.nvmApiKey = ApiKey(a)]
  /\ UNCHANGED <<promptVars, serverVars, baseVars>>

\* The service of the route runs, called with the key of the header and,
\* where the route passes it, the plan id of the environment.
RT_Service ==
  /\ http.pc = "service"
  /\ \/ http.route = "/api/credit" /\ (UC_Start \/ UC_Balance) /\ loc'.nvmApiKey # ""
     \/ /\ http.route = "/api/order-plan" /\ OrderPlanNext
        /\ loc'.nvmApiKey # "" /\ loc'.planId = env.PLAN_ID
     \/ http.route = "/api/find-burn-tx" /\ BurnInfoNext /\ loc'.nvmApiKey # ""
     \/ http.route = "/api/task" /\ GT_Return
     \/ http.route = "/api/plan/cost" /\ PlanCostNext /\ loc'.nvmApiKey # ""
     \/ /\ http.route = "/api/burn-credits" /\ RedeemNext
        /\ loc'.nvmApiKey # "" /\ loc'.planId = env.PLAN_ID
     \/ /\ http.route \in {"/api/agent", "/api/mcp/tools", "/api/mcp/tool"} /\ GatewayNext
        /\ gop' = ServiceOf(http.route) /\ gloc'.nvmApiKey # ""

\* What the service call of the request has come to.
ServiceOutcome ==
  IF ServiceOf(http.route) \in GatewayOps
  THEN IF gop = ServiceOf(http.route) /\ gpc = "done" THEN gresult ELSE Pending
  ELSE IF op = ServiceOf(http.route) /\ pc = "done" THEN result ELSE Pending

\* The handler goes on after its await: it answers for the value returned;
\* a rejection is answered 500 by the catch block of the handler, where it
\* has one.
RT_Respond ==
  /\ http.pc = "service"
  /\ ServiceOutcome # Pending
  /\ IF ServiceOutcome.kind = "return"
     THEN http' = [http EXCEPT !.pc = "done", !.responses = @ + 1,
                               !.status = ResponseStatus(http.route, ServiceOutcome.value)]
     ELSE IF HasTryCatch(http.route)
          THEN http' = [http EXCEPT !.pc = "done", !.responses = @ + 1, !.status = 500]
          ELSE \E way \in RejectionOutcomes :
                 http' = IF way = "errorMiddleware"
                         THEN [http EXCEPT !.pc = "done", !.responses = @ + 1,
                                           !.status = 500, !.rejection = way]
                         ELSE [http EXCEPT !.pc = "done", !.rejection = way]
  /\ UNCHANGED <<promptVars, serverVars, baseVars>>

RoutesNext == \/ RT_Receive
              \/ RT_Service
              \/ RT_Respond

Next == \/ OrderPlanNext
        \/ RedeemNext
        \/ BurnInfoNext
        \/ PlanCostNext
        \/ GatewayNext
        \/ RouterNext
        \/ SynthNext

Spec == Init /\ [][Next]_vars

PromptInit ==
  /\ env = [NVM_ENVIRONMENT |-> "testing", PLAN_ID |-> "did:plan:A", AGENT_DID |-> "did:agent"]
  /\ chainHeight = 0
  /\ BridgeIdle
  /\ GatewayIdle
  /\ gloc = InitGloc
  /\ LlmIdle
  /\ ServerIdle
  /\ RouteIdle
  /\ PromptIdle

SpecPrompts == PromptInit /\ [][PromptNext]_vars

SpecRoutes == Init /\ [][RoutesNext]_vars

SpecServer == ServerInit /\ [][ServerNext]_vars

TypeOK == /\ pc \in {"idle", "done", "burn", "burnLoadDDO", "burnResolve", "poll", "delay",
                    "costLoadDDO", "costPrice", "costCredits", "creditBalance"}
                     \cup {OrderPlanSteps[i] : i \in 1..Len(OrderPlanSteps)}
          /\ result.kind \in {"pending", "return", "throw"}
          /\ gresult.kind \in {"pending", "return", "throw"}
          /\ lpc \in {"idle", "done", "credits", "routerCompletion", "synthCompletion"}
          /\ lresult.kind \in {"pending", "return", "throw"}
          /\ lloc.status \in {0, 200, 400, 500}
          /\ http.pc \in {"idle", "service", "done"}
          /\ http.status \in {0, 200, 400, 401, 402, 404, 500}
          /\ promptCall.pc \in {"idle", "read", "done"}

(* ============================== properties ============================ *)
HasCall(c) == Count(calls, c) > 0
PurchaseReportedSuccess ==
  /\ op = "orderPlan"
  /\ IsSome(loc.orderResult)
  /\ Val(loc.orderResult).kind = "value"
  /\ Val(loc.orderResult).success
ReturnedFailure(r) == r.kind = "return" /\ ~r.value.success

\* C1: in orderPlan, whenever the balance check reports an insufficient
\* balance, the operation has returned success=false and neither the chain
\* height snapshot, nor the purchase primitive, nor the mint-event poll is
\* ever invoked in that request.
C1_InsufficientBalanceStops ==
  (op = "orderPlan" /\ loc.hasBalance = Some(FALSE))
    => /\ pc = "done"
       /\ ReturnedFailure(result)
       /\ ~HasCall("orderPlan")
       /\ ~HasCall("getCurrentBlockNumber")
       /\ ~HasCall("findMintEvent")

C1_Witness ==
  /\ op = "orderPlan" /\ pc = "done"
  /\ loc.hasBalance = Some(FALSE)
  /\ HasCall("hasSufficientERC20Balance")
  /\ ReturnedFailure(result)

\* C2: within one orderPlan request the external steps occur in one fixed
\* order: plan descriptor load, wallet, balance check, chain height snapshot,
\* purchase, mint-event poll; a step is made only after every earlier one,
\* and the mint-event poll only after the purchase reported success.
C2_Order == <<"getPlan", "getAccountAddress", "hasSufficientERC20Balance",
              "getCurrentBlockNumber", "orderPlan", "findMintEvent">>
C2_Rank(c) == CHOOSE k \in 1..Len(C2_Order) : C2_Order[k] = c
C2_Steps == SelectSeq(calls, LAMBDA c : c # "getInstance")
C2_StepsInFixedOrder ==
  op = "orderPlan" =>
    /\ \A i \in 1..Len(C2_Steps) : \E k \in 1..Len(C2_Order) : C2_Order[k] = C2_Steps[i]
    /\ \A i, j \in 1..Len(C2_Steps) :
         i < j => \/ C2_Rank(C2_Steps[i]) < C2_Rank(C2_Steps[j])
                  \/ (C2_Steps[i] = "getPlan" /\ C2_Steps[j] = "getPlan")
    /\ \A i \in 1..Len(C2_Steps) : \A r \in 1..(C2_Rank(C2_Steps[i]) - 1) :
         \E j \in 1..(i - 1) : C2_Rank(C2_Steps[j]) = r
    /\ HasCall("findMintEvent") => PurchaseReportedSuccess

C2_Witness ==
  /\ op = "orderPlan" /\ pc = "done"
  /\ HasCall("findMintEvent")
  /\ HasCall("getCurrentBlockNumber")
  /\ result.kind = "return"

\* C3: in getBurnTransactionInfo, when the Event Locator answers absent on
\* every call, it is called exactly 10 times (never more) and the operation
\* returns null as a normal result, not a thrown error.
C3_AllAbsent ==
  /\ op = "getBurnTransactionInfo"
  /\ HasCall("findBurnEvent")
  /\ loc.attempts = Count(calls, "findBurnEvent")
C3_ExhaustedAfterTen ==
  C3_AllAbsent =>
    /\ Count(calls, "findBurnEvent") <= 10
    /\ pc = "done" => (Count(calls, "findBurnEvent") = 10 /\ result = Return(None))
    /\ (Count(calls, "findBurnEvent") = 10 /\ pc # "done") => ENABLED GB_Return

C3_Witness ==
  /\ op = "getBurnTransactionInfo" /\ pc = "done"
  /\ C3_AllAbsent
  /\ Count(calls, "findBurnEvent") = 10
  /\ result = Return(None)

\* C4: in getBurnTransactionInfo, when the Event Locator first answers a
\* match on its k-th call (k in 1..10), the operation returns that match
\* (its txHash, its value as credits, the configured plan id) after exactly
\* k calls and k-1 delays, and no further call is issued.
C4_MatchOnKthCall ==
  (op = "getBurnTransactionInfo" /\ IsSome(loc.event)) =>
    /\ Count(calls, "findBurnEvent") = loc.attempts + 1
    /\ Count(calls, "findBurnEvent") \in 1..10
    /\ Count(calls, "delay") = Count(calls, "findBurnEvent") - 1
    /\ pc \in {"poll", "done"}
    /\ pc = "poll" => ~ENABLED GB_Poll
    /\ pc = "done" => result = Return(Some([txHash |-> Val(loc.event).txHash,
                                             credits |-> Val(loc.event).value,
                                             planId |-> env.PLAN_ID]))

C4_Witness ==
  /\ op = "getBurnTransactionInfo" /\ pc = "done"
  /\ IsSome(loc.event)
  /\ Count(calls, "findBurnEvent") = 10
  /\ Count(calls, "delay") = 9
  /\ result.kind = "return" /\ IsSome(result.value)

\* C5 (as stated): after the purchase primitive reports success, orderPlan
\* polls the Event Locator exactly once; a found event is carried in a
\* success result, and without one the result is success=true with no
\* txHash and no credits.
C5_Original ==
  (PurchaseReportedSuccess /\ pc = "done") =>
    /\ Count(calls, "findMintEvent") = 1
    /\ result.kind = "return" =>
         /\ result.value.success
         /\ IF IsSome(loc.event)
            THEN /\ result.value.txHash = Val(loc.event).txHash
                 /\ result.value.credits = Val(loc.event).value
            ELSE DOMAIN result.value = {"success", "message"}

\* C5 (amended): after the purchase primitive reports success, orderPlan
\* polls the Event Locator at most once: exactly once when the plan
\* descriptor has an NFT contract address and not at all when it has none.
\* A found event is carried (txHash, value as credits) in a success=true
\* result; when no event is found or none was looked for, the result is
\* success=true with no txHash and no credits; a rejected poll propagates.
C5_MintPollAtMostOnce ==
  PurchaseReportedSuccess =>
    /\ Count(calls, "findMintEvent") <= 1
    /\ pc = "done" =>
         /\ Count(calls, "findMintEvent") = (IF Truthy(loc.contractAddress) THEN 1 ELSE 0)
         /\ result.kind = "throw" => Count(calls, "findMintEvent") = 1
         /\ result.kind = "return" =>
              /\ result.value.success
              /\ IF IsSome(loc.event)
                 THEN /\ result.value.txHash = Val(loc.event).txHash
                      /\ result.value.credits = Val(loc.event).value
                 ELSE DOMAIN result.value = {"success", "message"}

C5_Witness ==
  /\ PurchaseReportedSuccess /\ pc = "done"
  /\ ~Truthy(loc.contractAddress)
  /\ ~HasCall("findMintEvent")
  /\ result.kind = "return" /\ result.value.success
  /\ DOMAIN result.value = {"success", "message"}

\* C6: when the purchase primitive fails in orderPlan, by throwing or by
\* answering an unsuccessful result, orderPlan returns success=false with
\* the upstream failure message, and the Event Locator is never polled.
C6_UpstreamFailureMessage ==
  (/\ op = "orderPlan"
   /\ IsSome(loc.orderResult)
   /\ ~(Val(loc.orderResult).kind = "value" /\ Val(loc.orderResult).success)
   /\ Truthy(Val(loc.orderResult).message))
    => /\ pc = "done"
       /\ ReturnedFailure(result)
       /\ result.value.message = Val(loc.orderResult).message
       /\ ~HasCall("findMintEvent")

C8_BurnFailed ==
  /\ op = "redeemCredits"
  /\ IsSome(loc.orderResult)
  /\ \/ Val(loc.orderResult).kind = "throw"
     \/ ~IsSome(Val(loc.orderResult).res)
     \/ ~Val(Val(loc.orderResult).res).success
C8_RecoverableNeverThrown ==
  /\ (op = "orderPlan" /\ loc.hasBalance = Some(FALSE)) => result.kind # "throw"
  /\ C8_BurnFailed => (pc = "done" /\ ReturnedFailure(result))

C8_Witness ==
  /\ op = "redeemCredits" /\ pc = "done"
  /\ IsSome(loc.orderResult) /\ Val(loc.orderResult).kind = "throw"
  /\ ReturnedFailure(result)

\* C9: in listMcpTools, callMcpTool and createTask, a session whose client
\* was created is closed exactly once before the operation returns or
\* throws, on every exit path, and never more than once; a rejected close
\* leaves the outcome of the operation as it was before the close.
C9_ClosedExactlyOnce ==
  /\ Count(gcalls, "close") <= 1
  /\ ~gloc.clientCreated => Count(gcalls, "close") = 0
  /\ (gloc.clientCreated /\ gresult.kind # "pending") =>
       /\ Count(gcalls, "close") = 1
       /\ gcalls[Len(gcalls)] = "close"
       /\ gresult = gloc.outcome
  /\ (gloc.clientCreated /\ gpc = "done") => gresult.kind # "pending"

C9_Witness ==
  /\ gop = "callMcpTool" /\ gpc = "done"
  /\ gloc.clientCreated /\ gloc.closeFailed
  /\ gloc.failed = "invoke"
  /\ Count(gcalls, "close") = 1
  /\ gresult.kind = "throw"

\* C10: a connection or transport failure in the Tool Gateway operations is
\* surfaced as an error outcome: no operation returns a normal value (an
\* empty catalog, an output text) when the tool server could not be reached.
C10_TransportFailureSurfaced ==
  (gpc = "done" /\ gloc.failed # "") => gresult.kind = "throw"

\* The response of a completed callTool, and the positions of its text blocks.
ToolCallAnswered ==
  /\ gop \in {"callMcpTool", "createTask"}
  /\ gpc = "done"
  /\ IsSome(gloc.response)
  /\ Val(gloc.response).kind = "object"
TextBlockPositions ==
  IF IsSome(Val(gloc.response).content)
  THEN {i \in 1..Len(Val(Val(gloc.response).content)) :
           Val(Val(gloc.response).content)[i].type = "text"}
  ELSE {}
FirstTextBlock ==
  Val(Val(gloc.response).content)[CHOOSE i \in TextBlockPositions :
                                     \A j \in TextBlockPositions : i <= j]

\* C11: callTool normalization: when the content array of the response has
\* a block of type text, the output is the text field of the first such
\* block (its JSON serialization when it is not a string), also when that
\* text is the empty string.
C11_FirstTextBlockReturned ==
  (ToolCallAnswered /\ TextBlockPositions # {} /\ FirstTextBlock.text.k # "undefined") =>
    /\ gresult.kind = "return"
    /\ gresult.value.output = (IF FirstTextBlock.text.k = "string"
                               THEN Str(FirstTextBlock.text.v)
                               ELSE Json(FirstTextBlock.text))

\* C12: callTool normalization fallback: when the content of the response
\* has no block of type text (missing, not an array, only other blocks) the
\* output is the JSON serialization of the whole response, and the output
\* is that serialization only in that case.
C12_FallbackOnlyWithoutTextBlock ==
  ToolCallAnswered =>
    /\ gresult.kind = "return"
    /\ (TextBlockPositions = {}) <=> (gresult.value.output = Json(Val(gloc.response)))


RouterAnswered == lop = "llmRouter" /\ lpc = "done" /\ IsSome(lloc.text)
RouterText == Val(lloc.text)
EmbedsNoCredit(text) ==
  /\ Cardinality({i \in 1..Len(text) : text[i] = ObjNoCredit}) = 1
  /\ \A i \in 1..Len(text) : text[i] \notin ObjectChunks \ {ObjNoCredit}
IsObject(v) == v.t = "object"
YieldsObject(text) ==
  \E i, j \in 1..Len(text) :
    /\ i <= j
    /\ JSONparse(SubSeq(text, i, j)).ok
    /\ IsObject(JSONparse(SubSeq(text, i, j)).value)

\* C13: whenever the completion text handed to llmRouter is the object
\* {"action":"no_credit"} surrounded by prose of any kind, braces included,
\* llmRouter returns a decision whose action is no_credit.
C13_NoCreditExtracted ==
  (RouterAnswered /\ EmbedsNoCredit(RouterText)) =>
    /\ lresult.kind = "return"
    /\ Property(lresult.value, "action") = JsString("no_credit")

\* C14: llmRouter returns a value only when that value is a JSON object, and
\* it throws for every completion text that holds no JSON object, a text that
\* parses to a number, a string or null included.
C14_OnlyObjectsReturned ==
  RouterAnswered =>
    /\ lresult.kind = "return" => IsObject(lresult.value)
    /\ ~YieldsObject(RouterText) => lresult.kind = "throw"

SynthAnswered == lop = "llmIntentSynthesizer" /\ lpc = "done" /\ IsSome(lloc.text)
SynthText == Val(lloc.text)
HasToolShape(text) ==
  /\ JSONparse(text).ok
  /\ IsObject(JSONparse(text).value)
  /\ Property(JSONparse(text).value, "tool").t = "string"
  /\ Property(JSONparse(text).value, "args").t = "object"
ReturnsToolInvocation == lresult.kind = "return" /\ IsObject(lresult.value)
ReturnsText == lresult.kind = "return" /\ lresult.value.t = "text"
ArgKeys(v) == IF IsObject(Property(v, "args")) THEN {k \in Keys : Property(v, "args").fields[k].t # "undefined"} ELSE {}

\* C16: whenever llmIntentSynthesizer was given a tool catalog and the
\* completion text is not JSON of the shape {tool: text, args: mapping}, the
\* call fails; it does not return the completion text.
C16_InvalidSelectionFails ==
  (SynthAnswered /\ IsSome(lloc.catalog) /\ ~HasToolShape(SynthText)) =>
    /\ lresult.kind = "throw"
    /\ ~ReturnsText

\* C17: every tool invocation llmIntentSynthesizer returns when given a
\* catalog names a tool of that catalog and has no argument key outside that
\* entry's input schema.
C17_InvocationConformsToCatalog ==
  (SynthAnswered /\ IsSome(lloc.catalog) /\ ReturnsToolInvocation) =>
    \E i \in 1..Len(Val(lloc.catalog)) :
      /\ Property(lresult.value, "tool") = JsString(Val(lloc.catalog)[i].name)
      /\ ArgKeys(lresult.value) \subseteq Val(lloc.catalog)[i].schema

\* C18: what llmIntentSynthesizer returns is decided by the catalog alone:
\* without a catalog it returns text, also when the completion text is JSON
\* of the form {tool, args}; with a catalog it returns a tool invocation.
C18_VariantFollowsCatalog ==
  (SynthAnswered /\ lresult.kind = "return") =>
    /\ lloc.catalog = None => ReturnsText
    /\ IsSome(lloc.catalog) => ReturnsToolInvocation

UpstreamInvocations ==
  Count(gcalls, "listTools") + Count(gcalls, "callTool")
CompletionRejected ==
  /\ lop \in {"llmRouter", "llmIntentSynthesizer"}
  /\ lresult = Throw("completion failed")

\* C19: in one call of llmRouter, llmIntentSynthesizer, listMcpTools or
\* callMcpTool, the completion request and the tool-server request are each
\* made at most once, and once the completion request was rejected the call
\* is over.
C19_UpstreamInvokedAtMostOnce ==
  /\ Count(lcalls, "completions.create") <= 1
  /\ Count(gcalls, "connect") <= 1
  /\ UpstreamInvocations <= 1
  /\ CompletionRejected => (lpc = "done" /\ Count(lcalls, "completions.create") = 1)
  /\ (gloc.failed # "" /\ UpstreamInvocations = 1) => gpc \in {"close", "done"}
C19_Witness ==
  /\ CompletionRejected
  /\ lpc = "done"
  /\ Count(lcalls, "completions.create") = 1

BurnInvocations == Count(calls, "redeemCredits")
NeverLocatesOrWaits ==
  /\ ~HasCall("findBurnEvent")
  /\ ~HasCall("findMintEvent")
  /\ ~HasCall("delay")
  /\ ~HasCall("getCurrentBlockNumber")
ReturnsBurnHash ==
  (result.kind = "return" /\ result.value.success) =>
    /\ Val(loc.orderResult).kind = "value"
    /\ result.value.txHash = Val(Val(loc.orderResult).res).txHash

FetchCount == Count(calls, "getPlan")

\* C21: within one request, which builds one PlanDDOHelper, the plan
\* descriptor is fetched at most once: after the first getPlan no step
\* fetches again or changes the cached record, whatever that first fetch
\* answered.
C21_DescriptorFetchedOnce ==
  [][FetchCount >= 1 => (FetchCount' = FetchCount /\ ddo' = ddo)]_vars

CharDigit(c) == CHOOSE n \in 0..9 : DigitChars[n + 1] = c
DotPositions(text) == {i \in 1..Len(text) : text[i] = "."}
RECURSIVE DigitsValue(_)
DigitsValue(digits) ==
  IF digits = <<>> THEN 0
  ELSE 10 * DigitsValue(SubSeq(digits, 1, Len(digits) - 1)) + CharDigit(digits[Len(digits)])
RECURSIVE PadRight(_, _)
PadRight(digits, n) == IF Len(digits) >= n THEN digits ELSE PadRight(Append(digits, "0"), n)
WholePart(text) ==
  IF DotPositions(text) = {} THEN DigitsValue(text)
  ELSE DigitsValue(SubSeq(text, 1, (CHOOSE i \in DotPositions(text) : TRUE) - 1))
MicroPart(text) ==
  IF DotPositions(text) = {} THEN 0
  ELSE DigitsValue(PadRight(SubSeq(text, (CHOOSE i \in DotPositions(text) : TRUE) + 1, Len(text)), 6))
PlanCostReturned ==
  /\ op = "getPlanCost" /\ pc = "done"
  /\ result.kind = "return"
  /\ IsSome(ddo)
  /\ loc.planPrice.kind = "num"
PlanPriceText == Val(result.value.planPrice)
RawSum == SumSeq(Val(ddo).amounts)

\* C22: the price getPlanCost returns is a text whose value is the sum of
\* the descriptor's price amounts, divided by 10^6 exactly when the
\* descriptor's token address is the stablecoin address: a raw sum of
\* 5000000 reads "5" for the stablecoin and "5000000" for another token.
C22_PriceScaledForStablecoinOnly ==
  PlanCostReturned =>
    /\ IsSome(result.value.planPrice)
    /\ Cardinality(DotPositions(PlanPriceText)) <= 1
    /\ IF Val(ddo).tokenAddress = usdcAddress
       THEN /\ WholePart(PlanPriceText) * UsdcDecimals + MicroPart(PlanPriceText) = RawSum
            /\ RawSum = 5000000 => PlanPriceText = <<"5">>
       ELSE /\ WholePart(PlanPriceText) = RawSum
            /\ MicroPart(PlanPriceText) = 0
            /\ RawSum = 5000000 => PlanPriceText = <<"5", "0", "0", "0", "0", "0", "0">>
C22_Witness ==
  /\ PlanCostReturned
  /\ Val(ddo).tokenAddress = usdcAddress
  /\ RawSum = 5000000
  /\ result.value.planPrice = Some(<<"5">>)

PassedBalanceCheck(r) == reqs[r].op = "orderPlan" /\ reqs[r].pc \in {"snapshot", "purchase"}
CoversOnlyOne(balance) ==
  /\ balance >= ServerPlanPrice.units
  /\ balance < 2 * ServerPlanPrice.units

\* C23: orderPlan requests are not serialized: while one request has passed
\* the balance check and has not yet purchased, the balance check of another
\* request can still run, and a request that passed the check goes on to the
\* purchase primitive without looking at the balance again.
C23_OrdersNotSerialized ==
  \A r \in Requests : \A q \in Requests \ {r} :
    PassedBalanceCheck(r) =>
      /\ (reqs[q].op = "orderPlan" /\ reqs[q].pc = "balance") => ENABLED SV_BalanceCheck(q)
      /\ reqs[r].pc = "snapshot" => ENABLED SV_Snapshot(r)
      /\ reqs[r].pc = "purchase" => ENABLED SV_Purchase(r)
C23_Witness ==
  /\ \A r \in Requests :
       /\ reqs[r].op = "orderPlan" /\ reqs[r].pc = "purchase"
       /\ reqs[r].purchases = 0
       /\ reqs[r].seenBalance = Some(wallet)
  /\ CoversOnlyOne(wallet)

\* C24: once the client of a burn-confirmation request has gone away during
\* a delay, that request makes no further event locator call.
C24_PollCancelledOnDisconnect ==
  [][\A r \in Requests :
       (reqs[r].lostAt = "delay" /\ reqs[r].pc = "poll") =>
         (reqs'[r].pc = "poll" /\ reqs'[r].attempts = reqs[r].attempts)]_vars

OtherStep(q) ==
  \/ SV_Start(q)
  \/ SV_BalanceCheck(q)
  \/ SV_Snapshot(q)
  \/ SV_Purchase(q)
  \/ SV_Poll(q)
  \/ SV_Delay(q)
  \/ SV_Query(q)
  \/ SV_Token(q)
  \/ SV_Connect(q)
  \/ SV_Call(q)
  \/ SV_Close(q)

\* C25: while a burn-confirmation request waits between two attempts, every
\* other request that has not finished can take its next step: it can start
\* and run to its end before the wait is over.
C25_DelayDoesNotBlock ==
  \A r \in Requests : \A q \in Requests \ {r} :
    (reqs[r].pc = "delay" /\ reqs[q].pc # "done") => ENABLED OtherStep(q)
C25_Witness ==
  \E r \in Requests : \E q \in Requests \ {r} :
    /\ reqs[r].op = "getBurnTransactionInfo" /\ reqs[r].pc = "delay"
    /\ reqs[q].pc = "done"
    /\ r \in reqs[q].during

KnownForwarding == {"forward", "order_plan"}
DecisionStops ==
  /\ RouterAnswered
  /\ lresult.kind = "return"
  /\ IsObject(lresult.value)
  /\ Property(lresult.value, "action").t = "string"
  /\ Property(lresult.value, "action").s \notin KnownForwarding
RouterCallsOnly ==
  \A i \in 1..Len(lcalls) : lcalls[i] \in {"getInstance", "getPlanBalance", "llmRouter", "completions.create"}

\* C26: when the action llmRouter decided is no_credit, no_action or one the
\* route does not know, POST /api/llm-router answers 200 with that decision,
\* action and message as llmRouter returned them, and the request has called
\* neither the synthesizer, nor the Tool Gateway, nor the purchase or
\* redemption primitives.
C26_DecisionReturnedWithoutFurtherCalls ==
  DecisionStops =>
    /\ lloc.status = 200
    /\ lloc.body = Some(lresult.value)
    /\ Count(lcalls, "completions.create") = 1
    /\ RouterCallsOnly
    /\ gcalls = <<>> /\ gop = "none"
    /\ calls = <<>> /\ op = "none"
C26_Witness ==
  /\ DecisionStops
  /\ Property(lresult.value, "action") = JsString("dance")
  /\ Property(Val(lloc.body), "message") = JsString("why not")
  /\ Len(RouterText) > 1

BalanceAnswered(r) ==
  /\ reqs[r].op = "getUserCredits" /\ reqs[r].pc = "done"
  /\ reqs[r].result.kind = "return"

\* C27: a getUserCredits call that returns has queried the ledger exactly
\* once and returns the balance the ledger holds at that query, so of two
\* calls with a change of the balance between them the first returns the
\* old balance and the second the new one.
C27_BalanceQueryFresh ==
  [][\A r \in Requests :
       (reqs[r].op = "getUserCredits" /\ reqs[r].pc = "query" /\ reqs'[r].pc = "done") =>
         /\ reqs'[r].queries = 1
         /\ reqs'[r].result.kind = "return" => reqs'[r].result.value = ledgerCredits]_vars
C27_Witness ==
  \E r \in Requests : \E q \in Requests \ {r} :
    /\ BalanceAnswered(r) /\ BalanceAnswered(q)
    /\ reqs[r].result.value # reqs[q].result.value
    /\ reqs[q].result.value = ledgerCredits

TaskDispatched == gop = "createTask" /\ IsSome(gloc.request)
TaskInput == Val(gloc.input)
TaskRequest == Val(gloc.request)
NamesTool(input) == IsObject(input) /\ Property(input, "tool").t = "string"

\* C28: createTask calls the tool server with the tool name and the args of
\* its input when the input is an object with a text tool field, an empty
\* mapping standing for missing args; for every other input it calls the
\* default tool, with the arguments {city: input} for an input text and an
\* empty mapping for the empty text.
C28_TaskDispatch ==
  TaskDispatched =>
    IF NamesTool(TaskInput)
    THEN /\ TaskRequest.name = Property(TaskInput, "tool").s
         /\ IsObject(Property(TaskInput, "args")) => TaskRequest.arguments = Property(TaskInput, "args")
         /\ Property(TaskInput, "args").t = "undefined" => TaskRequest.arguments = JsEmptyObject
    ELSE /\ TaskRequest.name = gloc.defaultTool
         /\ gloc.defaultTool # ""
         /\ TaskInput.t = "string" =>
               TaskRequest.arguments = (IF TaskInput.s = "" THEN JsEmptyObject
                                        ELSE JsObject([city |-> TaskInput]))
C28_Witness ==
  /\ TaskDispatched
  /\ NamesTool(TaskInput)
  /\ Property(TaskInput, "args").t = "undefined"
  /\ TaskRequest = [name |-> "weather.today", arguments |-> JsEmptyObject]
  /\ Count(gcalls, "callTool") = 1

LocatorCalls == Count(calls, "findBurnEvent")
Delays == Count(calls, "delay")

\* C29: in getBurnTransactionInfo every delay stands between two event
\* locator calls: a delay is directly preceded by a call and directly
\* followed by the next call, the last thing a finished poll did is a call,
\* not a delay, and a poll that ran out of attempts made 10 calls and 9
\* delays.
C29_DelaysOnlyBetweenCalls ==
  op = "getBurnTransactionInfo" =>
    /\ \A i \in 1..Len(calls) :
         calls[i] = "delay" =>
           /\ i > 1 /\ calls[i - 1] = "findBurnEvent"
           /\ IF i < Len(calls) THEN calls[i + 1] = "findBurnEvent" ELSE pc = "poll"
    /\ Delays <= 9
    /\ (pc = "done" /\ LocatorCalls > 0) => calls[Len(calls)] = "findBurnEvent"
    /\ (pc = "done" /\ LocatorCalls = 10 /\ result = Return(None)) => Delays = 9
C29_Witness ==
  /\ op = "getBurnTransactionInfo" /\ pc = "done"
  /\ result = Return(None)
  /\ LocatorCalls = 10
  /\ Delays = 9

MintPolled == op = "orderPlan" /\ IsSome(loc.mintQuery)
SnapshotBeforePurchase ==
  \E i, j \in 1..Len(calls) :
    /\ i < j
    /\ calls[i] = "getCurrentBlockNumber"
    /\ calls[j] = "orderPlan"

\* C30: the mint-event poll of orderPlan is made with the chain height read
\* before the purchase primitive was called, with the NFT contract address
\* of the plan descriptor, the wallet of the principal and the plan id as
\* token id; that height is not above the block in which the purchase was
\* mined.
C30_MintPollFromSnapshot ==
  MintPolled =>
    /\ SnapshotBeforePurchase
    /\ Count(calls, "getCurrentBlockNumber") = 1
    /\ Val(loc.mintQuery).fromBlock = loc.fromBlock
    /\ Val(loc.mintQuery).contractAddress = get1155ContractAddress(ddo)
    /\ Val(loc.mintQuery).contractAddress # ""
    /\ Val(loc.mintQuery).wallet = loc.ourWallet
    /\ Val(loc.mintQuery).tokenId = loc.planId
    /\ IsSome(loc.mintBlock)
    /\ Val(loc.mintQuery).fromBlock <= Val(loc.mintBlock)
C30_Witness ==
  /\ MintPolled
  /\ pc = "done"
  /\ IsSome(loc.event)
  /\ Val(loc.event).blockNumber = Val(loc.mintBlock)
  /\ Val(loc.mintQuery).fromBlock < Val(loc.mintBlock)
  /\ result.kind = "return"

BurnPoll == op = "getBurnTransactionInfo"
AnotherAttemptFollows ==
  \/ pc = "delay"
  \/ pc = "poll" /\ LocatorCalls > 0 /\ LoopContinues(loc.attempts, loc.event)

\* C36: in getBurnTransactionInfo an error thrown by the event locator ends
\* the poll at once: the function fails with that error, the rejected call
\* is the last thing it did, and no delay or further call follows; another
\* attempt (a delay, or the next pass of the loop) follows an absent answer
\* only.
C36_LocatorErrorEndsPoll ==
  BurnPoll =>
    /\ loc.lastAnswer = "throw" =>
          /\ pc = "done"
          /\ result = Throw("event locator rejected")
          /\ calls[Len(calls)] = "findBurnEvent"
    /\ AnotherAttemptFollows => (loc.lastAnswer = "absent" /\ result = Pending)
C36_Witness ==
  /\ BurnPoll /\ pc = "done"
  /\ loc.lastAnswer = "throw"
  /\ LocatorCalls = 3
  /\ Delays = 2
  /\ result = Throw("event locator rejected")

BurnConfigMissing ==
  \/ loc.planId = ""
  \/ loc.nvmApiKey = ""
  \/ Count(calls, "getAccountAddress") = 1
       /\ (loc.contractAddress = "" \/ loc.ourWallet = "")

\* C37: getBurnTransactionInfo makes no event locator call when the plan
\* id, the credential, the NFT contract address or the wallet address is
\* missing: it fails with an error before the first attempt, and never
\* waits.
C37_NoLocatorCallWithoutConfig ==
  (BurnPoll /\ BurnConfigMissing) =>
    /\ pc = "done"
    /\ result.kind = "throw"
    /\ LocatorCalls = 0
    /\ Delays = 0
C37_Witness ==
  /\ BurnPoll /\ pc = "done"
  /\ loc.planId # "" /\ loc.nvmApiKey # ""
  /\ Count(calls, "getAccountAddress") = 1
  /\ loc.contractAddress # "" /\ loc.ourWallet = ""
  /\ result = Throw("Missing contract, tokenId or wallet")
  /\ LocatorCalls = 0
C37_WitnessNoCredential ==
  /\ BurnPoll /\ pc = "done"
  /\ loc.planId # "" /\ loc.nvmApiKey = ""
  /\ result = Throw("Missing config")
  /\ calls = <<>>

\* C38: whenever llmIntentSynthesizer returns a structured result, that
\* result has a text tool field and an args field that is a mapping: a
\* completion text whose args is null or an array is never returned as a
\* tool invocation.
C38_InvocationArgsAreMapping ==
  (SynthAnswered /\ ReturnsToolInvocation) =>
    /\ Property(lresult.value, "tool").t = "string"
    /\ Property(lresult.value, "args").t = "object"

GatewayCall(r) == reqs[r].op \in {"callMcpTool", "listMcpTools"}
TokenRejected(r) == GatewayCall(r) /\ reqs[r].tokenCalls = 1 /\ reqs[r].token = None

\* C31: each Tool Gateway operation asks the Ledger Bridge for one access
\* token and opens one session, for that call only: the session is opened
\* after the token was issued and carries it, the call is sent on the
\* session this call opened, two calls never have the same session or the
\* same token, and when the token is refused no session is opened and the
\* operation fails with that error.
C31_TokenAndSessionPerCall ==
  /\ \A r \in Requests :
       GatewayCall(r) =>
         /\ reqs[r].tokenCalls <= 1
         /\ reqs[r].connects <= 1
         /\ reqs[r].connects = 1 => reqs[r].token = Some(TokenFor(r))
         /\ IsSome(reqs[r].session) =>
               (reqs[r].session = Some(r) /\ reqs[r].authWith = reqs[r].token)
         /\ IsSome(reqs[r].sentOn) => reqs[r].sentOn = Some(r)
         /\ TokenRejected(r) =>
               /\ reqs[r].pc = "done"
               /\ reqs[r].connects = 0
               /\ reqs[r].session = None
               /\ reqs[r].result = Throw("access token rejected")
  /\ \A r, q \in Requests :
       (r # q /\ GatewayCall(r) /\ GatewayCall(q)) =>
         /\ IsSome(reqs[r].session) => reqs[r].session # reqs[q].session
         /\ IsSome(reqs[r].token) => reqs[r].token # reqs[q].token
C31_Witness ==
  /\ GatewayCall("r1") /\ GatewayCall("r2")
  /\ reqs["r1"].pc = "done" /\ reqs["r2"].pc = "done"
  /\ reqs["r1"].sentOn = Some("r1")
  /\ reqs["r2"].sentOn = Some("r2")
  /\ reqs["r1"].result.kind = "return"
C31_WitnessTokenRejected ==
  /\ TokenRejected("r2")
  /\ reqs["r1"].sentOn = Some("r1")

CallFile == promptFiles[promptCall.filename]
CallEntry == promptCache[promptCall.filename]
\* A step in which a call of the prompt service returns.
CallReturns == promptCall' # promptCall /\ promptCall'.pc = "done"

\* C33: reloadPrompt bypasses the cache: a call that finds the file readable
\* reads it, whatever entry the cache held and whether or not the file's
\* modification time has moved, returns the content the file has, and
\* leaves the cache holding that content.
C33_ReloadBypassesCache ==
  [][(CallReturns /\ promptCall'.fn = "reloadPrompt" /\ ~promptCall'.failed) =>
       /\ promptCall'.reads = 1
       /\ promptCall'.result = Some(promptFiles[promptCall'.filename].content)
       /\ IsSome(promptCache'[promptCall'.filename])
       /\ Val(promptCache'[promptCall'.filename]).content
            = promptFiles[promptCall'.filename].content]_vars
C33_Witness ==
  /\ promptCall.fn = "reloadPrompt" /\ promptCall.pc = "done"
  /\ promptCall.hadEntry
  /\ promptCall.reads = 1
  /\ CallFile.mtime = 0 /\ CallFile.edits = 1 /\ CallFile.content = "v2"
  /\ promptCall.result = Some("v2")
  /\ IsSome(CallEntry) /\ Val(CallEntry).content = "v2"

CacheCoherent ==
  \A f \in Filenames :
    (promptFiles[f].orderly /\ IsSome(promptCache[f])) =>
      /\ Val(promptCache[f]).content = Val(promptCache[f]).stamped
      /\ Val(promptCache[f]).lastModified <= promptFiles[f].mtime
      /\ Val(promptCache[f]).lastModified = promptFiles[f].mtime =>
            Val(promptCache[f]).content = promptFiles[f].content
LoadReturnsCurrent ==
  (CallReturns /\ ~promptCall'.failed /\ promptFiles[promptCall'.filename].orderly) =>
    promptCall'.result = Some(promptFiles[promptCall'.filename].content)

\* C39: while every change of a prompt file moves its modification time
\* forward and falls between two calls, a cached entry holds the content
\* the file had at the entry's modification time, and loadPrompt returns
\* the content the file has now, from the cache or from a new read.
C39_PromptCacheCoherent == [](CacheCoherent) /\ [][LoadReturnsCurrent]_vars
C39_Witness ==
  /\ promptCall.fn = "loadPrompt" /\ promptCall.pc = "done"
  /\ IsSome(promptCall.entryAtLoad)
  /\ Val(promptCall.entryAtLoad).content = "v1"
  /\ promptCall.reads = 1
  /\ CallFile.orderly /\ CallFile.edits = 1 /\ CallFile.mtime = 1
  /\ promptCall.result = Some("v2")
  /\ CallEntry = Some([content |-> "v2", lastModified |-> 1, stamped |-> "v2"])
C39_WitnessFromCache ==
  /\ promptCall.fn = "loadPrompt" /\ promptCall.pc = "done"
  /\ promptCall.reads = 0 /\ ~promptCall.failed
  /\ CallFile.orderly /\ CallFile.edits = 1 /\ CallFile.mtime = 1
  /\ promptCall.result = Some("v2")

\* C40: when statSync or readFileSync fails, loadPrompt returns the
\* fallback text of the filename and leaves the cache as it found it: the
\* fallback text is in no cache entry, and an entry of an earlier load is
\* still there, unchanged, and was not what the call returned.
C40_FallbackNotCached ==
  /\ (promptCall.pc = "done" /\ promptCall.failed) =>
       /\ promptCall.result = Some(FallbackText(promptCall.filename))
       /\ CallEntry = promptCall.entryAtLoad
       /\ IsSome(CallEntry) => promptCall.result # Some(Val(CallEntry).content)
  /\ \A f \in Filenames :
       IsSome(promptCache[f]) => Val(promptCache[f]).content # FallbackText(f)
C40_Witness ==
  /\ promptCall.fn = "loadPrompt" /\ promptCall.pc = "done" /\ promptCall.failed
  /\ promptCall.reads = 0
  /\ promptCall.filename = "notes.prompt"
  /\ CallEntry = Some([content |-> "v1", lastModified |-> 0, stamped |-> "v1"])
  /\ promptCall.result = Some("Default prompt for notes.prompt")
C40_WitnessReadFails ==
  /\ promptCall.fn = "loadPrompt" /\ promptCall.pc = "done" /\ promptCall.failed
  /\ promptCall.reads = 1
  /\ IsSome(CallEntry)
  /\ promptCall.result = Some(FallbackText("agent.prompt"))

BurnRouteAnswered ==
  /\ http.route = "/api/find-burn-tx" /\ http.pc = "done"
  /\ op = "getBurnTransactionInfo"

\* C32: GET /api/find-burn-tx, once its handler has called
\* getBurnTransactionInfo, answers 200 exactly when the call returned a
\* match, 404 exactly when it returned null, which it does after the last
\* of its attempts, and 500 exactly when it threw.
C32_BurnRouteStatus ==
  BurnRouteAnswered =>
    /\ http.responses = 1
    /\ http.status = 200 <=> (result.kind = "return" /\ IsSome(result.value))
    /\ http.status = 404 <=> (result.kind = "return" /\ ~IsSome(result.value))
    /\ http.status = 404 => LocatorCalls = MaxAttempts
    /\ http.status = 500 <=> result.kind = "throw"
C32_Witness ==
  /\ BurnRouteAnswered
  /\ http.status = 404
  /\ result = Return(None)
  /\ LocatorCalls = MaxAttempts
C32_WitnessMatch ==
  /\ BurnRouteAnswered
  /\ http.status = 200
  /\ LocatorCalls = 2
C32_WitnessThrow ==
  /\ BurnRouteAnswered
  /\ http.status = 500
  /\ result = Throw("event locator rejected")

\* C34: every request to an API route is answered with exactly one
\* response, also when the service it calls throws: a handler that has run
\* to its end has sent one response.  (A handler that ends without a
\* response leaves its request unanswered for good: nothing else answers.)
C34_EveryRequestAnswered == http.pc = "done" => http.responses = 1

\* A header of the form 'Bearer <non-empty key>'.
WellFormedAuth(a) ==
  /\ IsSome(a)
  /\ StartsWith(Val(a), BearerPrefix)
  /\ Len(Val(a)) > Len(BearerPrefix)

\* C35: on every credential-protected route a request whose Authorization
\* header is not of the form 'Bearer <non-empty key>' is answered by the
\* handler before any service is called: no ledger, chain or tool server
\* call is made for it.
C35_NoCallWithoutCredential ==
  (http.route \in ProtectedRoutes /\ ~WellFormedAuth(http.authorization)) =>
    /\ http.pc = "done"
    /\ http.responses = 1
    /\ http.status \in {400, 401, 500}
    /\ op = "none" /\ gop = "none"
    /\ calls = <<>> /\ gcalls = <<>>
C35_Witness ==
  /\ http.route = "/api/burn-credits" /\ http.pc = "done"
  /\ http.paramOk /\ env.PLAN_ID # ""
  /\ http.authorization = Some(<<"Basic", " ", "nvm-key">>)
  /\ http.status = 401
  /\ calls = <<>>
C35_WitnessAuthorized ==
  /\ http.route = "/api/mcp/tool" /\ http.pc = "done"
  /\ http.authorization = Some(<<"Bearer", " ", "nvm-key">>)
  /\ http.nvmApiKey = <<"nvm-key">>
  /\ http.status = 200
  /\ Count(gcalls, "callTool") = 1

====
